---- MODULE Spec2Model ----
(***************************************************************************)
(* Model of the combinatorial filter-statistics engine of                  *)
(* hcl_utilities/hcl_math/combinations.py (Historic Coastal Landfills).    *)
(*                                                                         *)
(* Python values are modelled as follows:                                  *)
(*   list / tuple        -> sequence                                       *)
(*   dict                -> sequence of [key, value] records in insertion  *)
(*                          order (DictSet overwrites an existing key in   *)
(*                          place, as Python does)                         *)
(*   set                 -> set                                            *)
(*   pandas.DataFrame    -> sequence of row records                        *)
(*   str                 -> string; a scope name built by "+" is the       *)
(*                          sequence of the strings concatenated           *)
(***************************************************************************)
EXTENDS Integers, Sequences, FiniteSets, TLC

VARIABLES
    call,                       \* unit harness: the pure function called and its arguments
    ret,                        \* unit harness: what the call returned (or the exception raised)
    pc,                         \* position of get_count_statistics_filter_criteria
    enable_permutation,         \* parameter of get_count_statistics_filter_criteria
    primary_filter_criteria,    \* parameter: list of (name, value)
    secondary_filter_criteria,  \* parameter: list of (name, column)
    combs,                      \* result of get_filter_combinations_criteria_multiple_orders
    perms,                      \* result of get_filter_permutations_criteria_multiple_orders
    pickle_file,                \* the intermediate-state file (NoFile or a table)
    hld_df,                     \* the root table returned by load_initial_filtered_data
    primary_data_dict,          \* hld_df_primary_filter_criteria_data_dict
    secondary_data_dict,        \* hld_df_secondary_filter_criteria_data_dict
    counts_dict,                \* filter_criteria_combinations_counts_dict
    cursor,                     \* (filter_index, position in primary_data_dict) of the secondary loop
    count_statistics_df,        \* the flattened report
    worksheet,                  \* content of the output worksheet
    raised                      \* exception that ended the run ("" while none)

vars == <<call, ret, pc, enable_permutation, primary_filter_criteria,
          secondary_filter_criteria, combs, perms, pickle_file, hld_df,
          primary_data_dict, secondary_data_dict, counts_dict, cursor,
          count_statistics_df, worksheet, raised>>

----------------------------------------------------------------------------
(* Bounds of the model *)

\* largest number of rows of a dataset
MaxRows == 2
\* number of waste criteria used by the aggregator runs (a prefix of the list)
MaxCriteria == 2
\* number of orders of a long criteria list whose enumeration is followed
MaxEnumeratedOrder == 2
\* largest number of sites whose coordinates are converted
MaxSites == 3
\* largest number of worker processes of a pool
MaxWorkers == 2
\* largest number of letters of a column name handed to the converters
MaxLetters == 2
\* largest identifier an arbitrary identifier list handed to check_site_totals may hold
MaxRef == 3

----------------------------------------------------------------------------
(* Constants of the program *)

WASTE_FILTRATION_CRITERIA ==
    << "Inert Waste", "Industrial Waste", "Commercial Waste", "Household Waste",
       "Special / hazardous Waste", "Liquid / sludge Waste", "Waste unknown",
       "Gas control", "Leachate containment", "Buffer point" >>

\* the header row of the dataset (load_excel_column_headers reads it from the
\* workbook); taken to be the columns the program reads, USEFUL_COLS
EXCEL_COL_HEADERS ==
    << "Index", "HLD reference", "Site name", "Site address",
       "Licence ./ permit reference", "REGIS reference", "WRC reference",
       "BGS reference", "WRA reference", "Permit / licence holder",
       "Permit / licence holder address", "Site operator's name",
       "Site operator's address", "Site County", "Country", "Local Authority",
       "District/Unitary Council", "County Council", "Ward", "Constituency",
       "Region", "OS prefix", "Easting", "Northing", "Latitude", "Longitude",
       "Landfill Size", "Landfill Notes", "EA Region", "EA Area",
       "Licence issue date", "Licence surrender date", "First input date",
       "Last input date", "Inert Waste", "Industrial Waste", "Commercial Waste",
       "Household Waste", "Special / hazardous Waste", "Liquid / sludge Waste",
       "Waste unknown", "Gas control", "Leachate containment", "Exempt",
       "Licensed", "No licence required", "Buffer point",
       "New Update CE Property Jan 2023?", "Borders other site(s)",
       "Site(s) nearby", "Is study available?" >>

on_and_adjacent_ce_property_filter_column_name == "New Update CE Property Jan 2023?"

ROOT_SCOPE_NAME == << "# Sites relevant CE" >>

----------------------------------------------------------------------------
(* Generic helpers: Python built-ins *)

Range(s) == { s[i] : i \in DOMAIN s }

RECURSIVE SumSeq(_)
SumSeq(s) == IF s = << >> THEN 0 ELSE Head(s) + SumSeq(Tail(s))

\* list.index(x): position (1-based here) of the first occurrence
IndexOf(s, x) == CHOOSE i \in DOMAIN s : s[i] = x /\ \A j \in 1..(i - 1) : s[j] # x

\* sorted list of the elements of a finite set of integers
RECURSIVE SortedSeq(_)
SortedSeq(S) ==
    IF S = {} THEN << >>
    ELSE LET m == CHOOSE x \in S : \A y \in S : x <= y
         IN << m >> \o SortedSeq(S \ {m})

\* d[k] = v on a dict
DictSet(d, k, v) ==
    IF \E i \in DOMAIN d : d[i].key = k
    THEN [ i \in DOMAIN d |-> IF d[i].key = k THEN [key |-> k, value |-> v] ELSE d[i] ]
    ELSE Append(d, [key |-> k, value |-> v])

DictKeys(d) == [ i \in DOMAIN d |-> d[i].key ]

DictHas(d, k) == \E i \in DOMAIN d : d[i].key = k

DictGet(d, k) == d[CHOOSE i \in DOMAIN d : d[i].key = k].value

----------------------------------------------------------------------------
(* Combination Generator *)

\* itertools.combinations(s, r): the r-length subsequences of s, in
\* lexicographic order of the positions chosen
RECURSIVE ItertoolsCombinations(_, _)
ItertoolsCombinations(s, r) ==
    IF r = 0 THEN << << >> >>
    ELSE IF Len(s) < r THEN << >>
    ELSE LET with == ItertoolsCombinations(Tail(s), r - 1)
         IN [ i \in DOMAIN with |-> << Head(s) >> \o with[i] ]
            \o ItertoolsCombinations(Tail(s), r)

\* s without its element at position i
RemoveAt(s, i) == SubSeq(s, 1, i - 1) \o SubSeq(s, i + 1, Len(s))

RECURSIVE Flatten(_)
Flatten(ss) == IF ss = << >> THEN << >> ELSE Head(ss) \o Flatten(Tail(ss))

\* itertools.permutations(s, r): the r-length arrangements of s, in
\* lexicographic order of the positions chosen
RECURSIVE ItertoolsPermutations(_, _)
ItertoolsPermutations(s, r) ==
    IF r = 0 THEN << << >> >>
    ELSE IF Len(s) < r THEN << >>
    ELSE Flatten([ i \in DOMAIN s |->
            LET rest == ItertoolsPermutations(RemoveAt(s, i), r - 1)
            IN [ j \in DOMAIN rest |-> << s[i] >> \o rest[j] ] ])

\* zero-based column offsets of the header row (cell.column - 1)
EXCEL_COL_INDICES == [ i \in DOMAIN EXCEL_COL_HEADERS |-> i - 1 ]

\* a conversion by plain base 26, without the n - 1 of divmod(n - 1, 26)
RECURSIVE ColumnLettersPlainBase26(_)
ColumnLettersPlainBase26(n) ==
    IF n > 0 THEN ColumnLettersPlainBase26(n \div 26) \o << (n % 26) + 1 >>
    ELSE << >>

\* convert_excel_column_index_to_column_letters: the letters are kept as the
\* sequence of their 1-based alphabet positions
RECURSIVE ColumnLetters(_)
ColumnLetters(n) ==
    IF n > 0 THEN ColumnLetters((n - 1) \div 26) \o << ((n - 1) % 26) + 1 >>
    ELSE << >>

\* a step that counts "A" as the digit 0: n * 26 + ord(c) - ord("A")
ColumnIndexStepZeroBased(n, c) == n * 26 + (c - 1)

\* line 126, n = n * 26 + 1 + ord(c) - ord("A"): a letter c is kept as its
\* 1-based alphabet position, so ord(c) - ord("A") is c - 1
ColumnIndexStep(n, c) == n * 26 + 1 + (c - 1)

\* lines 125-127: the loop over the letters of the name, from n
RECURSIVE ColumnIndexFrom(_, _)
ColumnIndexFrom(n, name) ==
    IF name = << >> THEN n
    ELSE ColumnIndexFrom(ColumnIndexStep(n, Head(name)), Tail(name))

\* convert_excel_column_letters_to_column_index
ColumnIndex(name) == ColumnIndexFrom(0, name)

\* column letters of the header row (cell.column_letter)
EXCEL_COL_LETTERS == [ i \in DOMAIN EXCEL_COL_HEADERS |-> ColumnLetters(i) ]

\* WASTE_CRITERIA_COL_INDICES_NUM for a criteria list
ColIndicesNum(criteria) ==
    [ i \in DOMAIN criteria |-> EXCEL_COL_INDICES[IndexOf(EXCEL_COL_HEADERS, criteria[i])] ]

\* the letters list indexed one-based by the zero-based offsets: the letters of
\* the column to the left
ColIndicesCharOffByOne(criteria) ==
    [ i \in DOMAIN criteria |-> EXCEL_COL_LETTERS[ColIndicesNum(criteria)[i]] ]

\* WASTE_CRITERIA_COL_INDICES_CHAR for a criteria list: EXCEL_COL_LETTERS
\* indexed (zero-based) by the numeric offsets
ColIndicesChar(criteria) ==
    [ i \in DOMAIN criteria |-> EXCEL_COL_LETTERS[ColIndicesNum(criteria)[i] + 1] ]

\* a generator whose loop stops one order early: range(1, len(criteria))
OrdersOfExclusive(criteria) == 1..(Len(criteria) - 1)

\* the orders the generator's loop visits: range(1, len(criteria) + 1)
OrdersOf(criteria) == 1..Len(criteria)

\* a generator that combines the criteria taken from the last to the first
GetFilterCombinationsBackwards(criteria) ==
    LET backwards(s) == [ i \in DOMAIN s |-> s[Len(s) + 1 - i] ]
    IN [ nums  |-> [ indx \in OrdersOf(criteria) |->
                    ItertoolsCombinations(backwards(ColIndicesNum(criteria)), indx) ],
         chars |-> [ indx \in OrdersOf(criteria) |->
                    ItertoolsCombinations(backwards(ColIndicesChar(criteria)), indx) ],
         crits |-> [ indx \in OrdersOf(criteria) |->
                    ItertoolsCombinations(backwards(criteria), indx) ] ]

\* get_filter_combinations_criteria_multiple_orders over a criteria list
GetFilterCombinations(criteria) ==
    [ nums  |-> [ indx \in OrdersOf(criteria) |->
                    ItertoolsCombinations(ColIndicesNum(criteria), indx) ],
      chars |-> [ indx \in OrdersOf(criteria) |->
                    ItertoolsCombinations(ColIndicesChar(criteria), indx) ],
      crits |-> [ indx \in OrdersOf(criteria) |->
                    ItertoolsCombinations(criteria, indx) ] ]

\* a record of the logger: its level and what it says
LogRecord(level, message) == [level |-> level, message |-> message]

\* lines 76-82: the generator before its loop, the lists empty and the number of
\* criteria logged at INFO level
GeneratorStarted(criteria) ==
    [ status |-> "running",
      log |-> << LogRecord("INFO", << "COMBINATIONS FOR CRITERIA", Len(criteria) >>) >>,
      nums |-> << >>, chars |-> << >>, crits |-> << >> ]

\* lines 83-104: one iteration of the loop, for the order after the last one
GeneratorAfterNextOrder(run, criteria) ==
    LET indx == Len(run.crits) + 1
    IN [ status |-> "running",
         log |-> run.log \o
            << LogRecord("INFO", << "Combining filter criteria with order r", indx >>),
               LogRecord("INFO", << "Number of combined filter criteria",
                                    Len(ItertoolsCombinations(ColIndicesNum(criteria), indx)) >>) >>,
         nums |-> Append(run.nums, ItertoolsCombinations(ColIndicesNum(criteria), indx)),
         chars |-> Append(run.chars, ItertoolsCombinations(ColIndicesChar(criteria), indx)),
         crits |-> Append(run.crits, ItertoolsCombinations(criteria, indx)) ]

\* get_filter_permutations_criteria_multiple_orders over a criteria list
GetFilterPermutations(criteria) ==
    [ nums  |-> [ indx \in 1..Len(criteria) |->
                    ItertoolsPermutations(ColIndicesNum(criteria), indx) ],
      chars |-> [ indx \in 1..Len(criteria) |->
                    ItertoolsPermutations(ColIndicesChar(criteria), indx) ],
      crits |-> [ indx \in 1..Len(criteria) |->
                    ItertoolsPermutations(criteria, indx) ] ]

----------------------------------------------------------------------------
(* Tables: a pandas.DataFrame is its set of column names and its rows *)

HLD_REFERENCE == "HLD reference"

DataFrame(columns, rows) == [columns |-> columns, rows |-> rows]

\* hld_df.shape[0]
NumRows(df) == Len(df.rows)

\* df[mask]: the rows (order kept) whose position is in keep
RECURSIVE SelectRows(_, _, _)
SelectRows(rows, keep, i) ==
    IF i > Len(rows) THEN << >>
    ELSE (IF i \in keep THEN << rows[i] >> ELSE << >>) \o SelectRows(rows, keep, i + 1)

\* the frame indexed without the comparison: every row is kept
FilterEqUnmasked(df, column, value) == df

\* df[df[column] == value]
FilterEq(df, column, value) ==
    DataFrame(df.columns,
              SelectRows(df.rows, { i \in DOMAIN df.rows : df.rows[i][column] = value }, 1))

\* df[(df[list(columns)] == "Yes").any(axis=1)]
FilterAnyYes(df, columns) ==
    DataFrame(df.columns,
              SelectRows(df.rows,
                         { i \in DOMAIN df.rows : \E c \in columns : df.rows[i][c] = "Yes" }, 1))

\* df[(df[list(columns)] == "Yes").all(axis=1)]
FilterAllYes(df, columns) ==
    DataFrame(df.columns,
              SelectRows(df.rows,
                         { i \in DOMAIN df.rows : \A c \in columns : df.rows[i][c] = "Yes" }, 1))

----------------------------------------------------------------------------
(* Row Matcher *)

\* an encoding that takes every non-empty cell for the marker: ne("").astype(int)
OneHotNotEmpty(row, criteria) ==
    [ c \in Range(criteria) \cup {HLD_REFERENCE} |->
        IF c = HLD_REFERENCE THEN row[HLD_REFERENCE]
        ELSE IF row[c] # "" THEN 1 ELSE 0 ]

\* hld_data_df[criteria].eq("Yes").astype(int) of one row, plus its "HLD reference"
OneHot(row, criteria) ==
    [ c \in Range(criteria) \cup {HLD_REFERENCE} |->
        IF c = HLD_REFERENCE THEN row[HLD_REFERENCE]
        ELSE IF row[c] = "Yes" THEN 1 ELSE 0 ]

\* a mask that keeps a row when it holds two criteria of the combination,
\* whatever the size of the combination: sum(axis=1) == 2
MaskTwoHeld(onehot, combination) ==
    Cardinality({ i \in DOMAIN combination :
                    combination[i] # HLD_REFERENCE /\ onehot[combination[i]] = 1 }) = 2

\* a mask that keeps a row when any criterion of the combination holds: any(axis=1)
MaskAny(onehot, combination) ==
    \E i \in DOMAIN combination :
        combination[i] # HLD_REFERENCE /\ onehot[combination[i]] = 1

\* (hld_data_df_filtered[list(combination)] == 1).all(axis=1) of one one-hot row;
\* a reference is a string and never equals the integer 1
MaskAll(onehot, combination) ==
    \A i \in DOMAIN combination :
        combination[i] # HLD_REFERENCE /\ onehot[combination[i]] = 1

\* a mask rebuilt for each criterion of the combination: only the last one counts
MatchedPositionsLastCriterion(df, criteria, combination) ==
    { i \in DOMAIN df.rows :
        MaskAll(OneHot(df.rows[i], criteria), << combination[Len(combination)] >>) }

\* positions of the rows the mask of a combination keeps
MatchedPositions(df, criteria, combination) ==
    { i \in DOMAIN df.rows : MaskAll(OneHot(df.rows[i], criteria), combination) }

\* the references taken from the unmasked frame: hld_data_df_filtered["HLD reference"]
UnmaskedRefs(df, criteria, combination) ==
    [ i \in DOMAIN df.rows |-> df.rows[i][HLD_REFERENCE] ]

\* hld_data_df_filtered[mask]["HLD reference"].values.tolist()
MatchedRefs(df, criteria, combination) ==
    LET kept == SelectRows(df.rows, MatchedPositions(df, criteria, combination), 1)
    IN [ i \in DOMAIN kept |-> kept[i][HLD_REFERENCE] ]

\* the number of rows of the frame before the mask: hld_data_df_filtered.shape[0]
UnmaskedCount(df, criteria, combination) == NumRows(df)

\* hld_data_df_filtered[mask].shape[0]
MatchedCount(df, criteria, combination) ==
    Len(SelectRows(df.rows, MatchedPositions(df, criteria, combination), 1))

\* filter_counts[filter_order_index], filled in the order of the combinations
RECURSIVE OrderCounts(_, _, _, _)
OrderCounts(df, criteria, filter_combinations, d) ==
    IF filter_combinations = << >> THEN d
    ELSE OrderCounts(df, criteria, Tail(filter_combinations),
                     DictSet(d, Head(filter_combinations),
                             MatchedCount(df, criteria, Head(filter_combinations))))

\* site_ref_nums[filter_order_index], filled in the order of the combinations
RECURSIVE OrderRefs(_, _, _, _)
OrderRefs(df, criteria, filter_combinations, d) ==
    IF filter_combinations = << >> THEN d
    ELSE OrderRefs(df, criteria, Tail(filter_combinations),
                   DictSet(d, Head(filter_combinations),
                           MatchedRefs(df, criteria, Head(filter_combinations))))

\* the column names a combination may name without a KeyError
KnownColumns(criteria) == Range(criteria) \cup {HLD_REFERENCE}

\* number of combinations matched before the first one naming an unknown column
MatchedBeforeKeyError(criteria, all_combinations) ==
    LET bad == { i \in DOMAIN all_combinations :
                    ~ (Range(all_combinations[i]) \subseteq KnownColumns(criteria)) }
    IN IF bad = {} THEN Len(all_combinations)
       ELSE (CHOOSE i \in bad : \A j \in bad : i <= j) - 1

\* get_filter_criteria_counts(hld_data_df, filter_orders_combinations_criteria)
\* with WASTE_FILTRATION_CRITERIA = criteria
GetFilterCriteriaCounts(df, criteria, filter_orders_combinations_criteria) ==
    LET all == Flatten(filter_orders_combinations_criteria)
    IN IF ~ (KnownColumns(criteria) \subseteq df.columns)
       THEN [raised |-> "KeyError", matched |-> 0]
       ELSE IF MatchedBeforeKeyError(criteria, all) < Len(all)
       THEN [raised |-> "KeyError", matched |-> MatchedBeforeKeyError(criteria, all)]
       ELSE [raised |-> "",
             matched |-> Len(all),
             filter_counts |->
                [ o \in DOMAIN filter_orders_combinations_criteria |->
                    OrderCounts(df, criteria, filter_orders_combinations_criteria[o],
                                << >>) ],
             site_ref_nums |->
                [ o \in DOMAIN filter_orders_combinations_criteria |->
                    OrderRefs(df, criteria, filter_orders_combinations_criteria[o],
                              << >>) ] ]

----------------------------------------------------------------------------
(* Consistency Checker *)

\* site_totals: the values of every dict of every order, concatenated
RECURSIVE SiteTotals(_)
SiteTotals(site_ref_nums) ==
    IF site_ref_nums = << >> THEN << >>
    ELSE Flatten([ i \in DOMAIN Head(site_ref_nums) |-> Head(site_ref_nums)[i].value ])
         \o SiteTotals(Tail(site_ref_nums))

\* the condition without the set(): len(site_totals) <= hld_df.shape[0]
SiteTotalsListWithinRows(df, site_ref_nums) ==
    Len(SiteTotals(site_ref_nums)) <= NumRows(df)

\* the asserted condition: len(set(site_totals)) <= hld_df.shape[0]
SiteTotalsWithinRows(df, site_ref_nums) ==
    Cardinality(Range(SiteTotals(site_ref_nums))) <= NumRows(df)

\* check_site_totals(hld_df, site_ref_nums): "" on return, else the exception
CheckSiteTotals(df, site_ref_nums) ==
    IF SiteTotalsWithinRows(df, site_ref_nums) THEN "" ELSE "AssertionError"

----------------------------------------------------------------------------
(* Inputs of the unit calls *)

\* cell values of a boolean column: the marker, its negation, a typo of the marker
CellValues == { "Yes", "No", "yes" }

\* every list of distinct criteria taken, in order, from WASTE_FILTRATION_CRITERIA
CriteriaLists ==
    { [ i \in 1..Cardinality(S) |-> WASTE_FILTRATION_CRITERIA[SortedSeq(S)[i]] ] :
        S \in SUBSET (DOMAIN WASTE_FILTRATION_CRITERIA) }

\* the first n criteria
FirstCriteria(n) == SubSeq(WASTE_FILTRATION_CRITERIA, 1, n)

\* rows of n sites: distinct references (ascending or descending), the given cells
SiteRows(n, columns, asc, cells) ==
    [ i \in 1..n |-> [ c \in columns \cup {HLD_REFERENCE} |->
        IF c = HLD_REFERENCE THEN (IF asc THEN i ELSE n + 1 - i) ELSE cells[i][c] ] ]

\* the cells of n sites over the columns
SiteCells(n, columns) == [ 1..n -> [ columns -> CellValues ] ]

\* a table holding exactly the criteria columns and the reference column
WasteTable(criteria, n, asc, cells) ==
    DataFrame(KnownColumns(criteria), SiteRows(n, Range(criteria), asc, cells))

\* a header of the sheet that is not a waste criterion
UNKNOWN_CRITERION == "Exempt"

\* the table without one of its columns ("" for none)
DropColumn(df, column) ==
    DataFrame(df.columns \ {column},
              [ i \in DOMAIN df.rows |->
                    [ c \in (DOMAIN df.rows[i]) \ {column} |-> df.rows[i][c] ] ])

\* how a call of the matcher may disagree with WASTE_FILTRATION_CRITERIA: the
\* combinations are those of a list in which one criterion is replaced by a
\* name that is no criterion, or the table lacks the column of one criterion
MatcherCases(criteria) ==
    { [asked |-> criteria, missing |-> ""] }
    \cup { [asked |-> [ criteria EXCEPT ![k] = UNKNOWN_CRITERION ], missing |-> ""] :
                k \in DOMAIN criteria }
    \cup { [asked |-> criteria, missing |-> criteria[k]] : k \in DOMAIN criteria }

\* the string hash seeds of the interpreter (PYTHONHASHSEED, drawn anew by every
\* process): a seed ranks the n references, and a set of references is
\* iterated in the order of the ranks
HashSeeds(n) ==
    { seed \in [ 1..n -> 1..n ] : \A a, b \in 1..n : seed[a] = seed[b] => a = b }

\* the worked scenario: criteria A, B, C and five rows, row1 = {A, B},
\* row2 = {A}, row3 = {B, C}, row4 = {C}, row5 = {}; row i has the reference i
ScenarioCriteria == FirstCriteria(3)

ScenarioYes ==
    << { ScenarioCriteria[1], ScenarioCriteria[2] }, { ScenarioCriteria[1] },
       { ScenarioCriteria[2], ScenarioCriteria[3] }, { ScenarioCriteria[3] }, { } >>

ScenarioTable ==
    DataFrame(KnownColumns(ScenarioCriteria),
        [ i \in DOMAIN ScenarioYes |-> [ c \in KnownColumns(ScenarioCriteria) |->
            IF c = HLD_REFERENCE THEN i
            ELSE IF c \in ScenarioYes[i] THEN "Yes" ELSE "No" ] ])

ScenarioCombinations == GetFilterCombinations(ScenarioCriteria).crits

\* the statistics dict of one scope, the scenario's table
ScenarioDict ==
    LET got == GetFilterCriteriaCounts(ScenarioTable, ScenarioCriteria, ScenarioCombinations)
    IN << [key |-> ROOT_SCOPE_NAME,
           value |-> [filter_counts |-> got.filter_counts,
                      site_ref_nums |-> got.site_ref_nums]] >>

\* identifier lists of at most two references
RefLists == { << >> } \cup { << a >> : a \in 1..MaxRef }
                \cup { << a, b >> : a \in 1..MaxRef, b \in 1..MaxRef }

\* a dict of one filter order, keyed by the order-1 combinations
RefDicts ==
    { << [key |-> << WASTE_FILTRATION_CRITERIA[1] >>, value |-> a] >> : a \in RefLists }
    \cup { << [key |-> << WASTE_FILTRATION_CRITERIA[1] >>, value |-> a],
              [key |-> << WASTE_FILTRATION_CRITERIA[2] >>, value |-> b] >> :
            a \in RefLists, b \in RefLists }

\* per-order identifier dicts of one or two orders
SiteRefNums ==
    { << d >> : d \in RefDicts }
    \cup { << d, << [key |-> FirstCriteria(2), value |-> a] >> >> :
            d \in RefDicts, a \in RefLists }

\* a table of rows sites, labelled 1..rows
ReferenceTable(rows) ==
    DataFrame({HLD_REFERENCE}, [ i \in 1..rows |-> [ c \in {HLD_REFERENCE} |-> i ] ])

NoCall == [fn |-> "none"]
Pending == [status |-> "pending"]
Returned(v) == [status |-> "returned", value |-> v]

----------------------------------------------------------------------------
(* The aggregator run, idle *)

NoFile == [exists |-> FALSE]
NoTable == DataFrame({}, << >>)
NoCombs == [nums |-> << >>, chars |-> << >>, crits |-> << >>]

AggregatorIdle ==
    /\ pc = "idle"
    /\ enable_permutation = FALSE
    /\ primary_filter_criteria = << >>
    /\ secondary_filter_criteria = << >>
    /\ combs = NoCombs
    /\ perms = NoCombs
    /\ pickle_file = NoFile
    /\ hld_df = NoTable
    /\ primary_data_dict = << >>
    /\ secondary_data_dict = << >>
    /\ counts_dict = << >>
    /\ cursor = << 0, 0 >>
    /\ count_statistics_df = << >>
    /\ worksheet = << >>
    /\ raised = ""

aggregator_vars == <<pc, enable_permutation, primary_filter_criteria,
                     secondary_filter_criteria, combs, perms, pickle_file, hld_df,
                     primary_data_dict, secondary_data_dict, counts_dict, cursor,
                     count_statistics_df, worksheet, raised>>

----------------------------------------------------------------------------
(* First stage and intermediate state *)

BORDERS_COLUMN == "Borders other site(s)"
NEARBY_COLUMN == "Site(s) nearby"

\* the waste criteria of the aggregator runs
Criteria == FirstCriteria(MaxCriteria)

SiteColumns ==
    Range(Criteria) \cup { on_and_adjacent_ce_property_filter_column_name,
                           BORDERS_COLUMN, NEARBY_COLUMN }

\* filter_dataset: "" and the kept rows, or the exception
FilterDataset(df, filter_column_name, filter_criteria, combination_operator) ==
    IF combination_operator = "None" THEN [raised |-> "", df |-> df]
    ELSE IF filter_column_name \notin df.columns THEN [raised |-> "KeyError", df |-> df]
    ELSE IF Len(filter_criteria) < 2 THEN [raised |-> "IndexError", df |-> df]
    ELSE [raised |-> "",
          df |-> DataFrame(df.columns,
                    SelectRows(df.rows,
                        { i \in DOMAIN df.rows :
                            LET a == df.rows[i][filter_column_name] = filter_criteria[1]
                                b == df.rows[i][filter_column_name] = filter_criteria[2]
                            IN IF combination_operator = "or_" THEN a \/ b ELSE a /\ b }, 1))]

\* the columns reorder_df_columns selects, of those the model's sheets carry (the
\* coordinate and postcode columns the enrichment adds are never read by the
\* statistics and are left out of the tables)
NEW_COLS_ORDER == SiteColumns \cup {HLD_REFERENCE}

\* reorder_df_columns, hld_df[NEW_COLS_ORDER]: KeyError when a column is absent
ReorderDfColumns(df) ==
    IF NEW_COLS_ORDER \subseteq df.columns
    THEN [raised |-> "", df |-> DataFrame(NEW_COLS_ORDER,
                [ i \in DOMAIN df.rows |-> [ c \in NEW_COLS_ORDER |-> df.rows[i][c] ] ])]
    ELSE [raised |-> "KeyError", df |-> df]

\* pickle.dump and pickle.load: the bytes written for a table and the table
\* read back from them
Pickle(df) == << "pickle", df.columns, df.rows >>
Unpickle(bytes) == DataFrame(bytes[2], bytes[3])

FileHolding(df) == [exists |-> TRUE, content |-> Pickle(df)]

\* run_first_stage: the sheet is read, filtered, reordered and saved; the
\* exception raised ("" if none), the table returned and the file afterwards
RunFirstStage(file, dataset, filter_column_name, filter_criteria, combination_operator) ==
    LET filtered == FilterDataset(dataset, filter_column_name, filter_criteria,
                                  combination_operator)
        reordered == ReorderDfColumns(filtered.df)
    IN IF filtered.raised # "" THEN [raised |-> filtered.raised, file |-> file]
       ELSE IF reordered.raised # "" THEN [raised |-> reordered.raised, file |-> file]
       ELSE [raised |-> "", df |-> reordered.df, file |-> FileHolding(reordered.df)]

\* a gate that reads the file whenever it exists, whatever load_existing says
UseExistingIfPresent(file, load_existing) == file.exists

\* lines 188-206: the intermediate state is read when load_existing is set and
\* the file exists
UseExisting(file, load_existing) == load_existing /\ file.exists

\* load_initial_filtered_data: the exception raised ("" if none), the table
\* returned, the file afterwards and the number of runs of run_first_stage
LoadInitial(file, load_existing, dataset, filter_column_name, filter_criteria, combination_operator) ==
    IF UseExisting(file, load_existing)
    THEN [raised |-> "", df |-> Unpickle(file.content), file |-> file,
          first_stage_runs |-> 0]
    ELSE LET staged == RunFirstStage(file, dataset, filter_column_name, filter_criteria,
                                     combination_operator)
         IN IF staged.raised # ""
            THEN [raised |-> staged.raised, file |-> staged.file, first_stage_runs |-> 1]
            ELSE [raised |-> "", df |-> staged.df, file |-> staged.file,
                  first_stage_runs |-> 1]

----------------------------------------------------------------------------
(* Unit calls: one pure function applied to one input *)

\* the sheets of n sites that differ in the CE property column only
CeSheets(n) ==
    { DataFrame(NEW_COLS_ORDER,
        [ i \in 1..n |-> [ c \in NEW_COLS_ORDER |->
            IF c = HLD_REFERENCE THEN i
            ELSE IF c = on_and_adjacent_ce_property_filter_column_name THEN ce[i]
            ELSE "No" ] ]) :
        ce \in [ 1..n -> { "Yes", "Adjacent", "No" } ] }

\* the lists of primary filter values a load is called with
LoadCriteria == { << "Yes" >>, << "Yes", "Adjacent" >> }

\* a criteria list of twenty-one columns of the sheet, the waste criteria among
\* them: "Landfill Size" to "Buffer point"
LongCriteria == SubSeq(EXCEL_COL_HEADERS, 27, 47)

\* the column names of one to MaxLetters letters
LetterStrings == UNION { [ 1..k -> 1..26 ] : k \in 1..MaxLetters }

\* the column numbers up to one past the last name of MaxLetters letters
ColumnNumbers == 0..(ColumnIndex([ i \in 1..MaxLetters |-> 26 ]) + 1)

InitUnit ==
    /\ \/ \E name \in LetterStrings :
            call = [fn |-> "convert_excel_column_letters_to_column_index", name |-> name]
       \/ \E n \in ColumnNumbers :
            call = [fn |-> "convert_excel_column_index_to_column_letters", n |-> n]
       \/ call = [fn |-> "get_filter_combinations_criteria_multiple_orders",
                  criteria |-> LongCriteria]
       \/ \E load_existing \in BOOLEAN, present \in BOOLEAN,
             n \in 0..MaxRows, m \in 0..MaxRows :
          \E dataset \in CeSheets(n), held \in CeSheets(m),
             missing \in { "", NEARBY_COLUMN }, filter_criteria \in LoadCriteria,
             combination_operator \in { "None", "or_", "and_" } :
            call = [fn |-> "load_initial_filtered_data",
                    file |-> IF present THEN FileHolding(held) ELSE NoFile,
                    load_existing |-> load_existing,
                    dataset |-> DropColumn(dataset, missing),
                    filter_column_name |-> on_and_adjacent_ce_property_filter_column_name,
                    filter_criteria |-> filter_criteria,
                    combination_operator |-> combination_operator]
       \/ \E criteria \in CriteriaLists :
            call = [fn |-> "get_filter_combinations_criteria_multiple_orders",
                    criteria |-> criteria]
       \/ \E n \in 0..MaxCriteria :
            LET criteria == FirstCriteria(n)
            IN \E case \in MatcherCases(criteria) :
                LET combos == GetFilterCombinations(case.asked).crits
                IN \E rows \in 0..MaxRows, asc \in BOOLEAN :
                    \E cells \in SiteCells(rows, Range(criteria)) :
                        call = [fn |-> "get_filter_criteria_counts",
                                criteria |-> criteria,
                                df |-> DropColumn(WasteTable(criteria, rows, asc, cells),
                                                  case.missing),
                                combos |-> combos]
       \/ \E rows \in 0..MaxRows, site_ref_nums \in SiteRefNums :
            call = [fn |-> "check_site_totals", df |-> ReferenceTable(rows),
                    site_ref_nums |-> site_ref_nums]
       \/ call = [fn |-> "get_filter_criteria_counts", criteria |-> ScenarioCriteria,
                  df |-> ScenarioTable, combos |-> ScenarioCombinations]
       \/ \E hash_seed \in HashSeeds(Len(ScenarioYes)) :
            call = [fn |-> "construct_count_statistics_dataframe",
                    d |-> ScenarioDict, hash_seed |-> hash_seed]
    /\ ret = Pending
    /\ AggregatorIdle

\* the generator over a list longer than the ten criteria, followed one order
\* of its loop at a time: the call starts
BeginGenerator ==
    /\ call.fn = "get_filter_combinations_criteria_multiple_orders"
    /\ Len(call.criteria) > Len(WASTE_FILTRATION_CRITERIA)
    /\ ret = Pending
    /\ ret' = GeneratorStarted(call.criteria)
    /\ UNCHANGED <<call, aggregator_vars>>

\* the next order is enumerated
EnumerateOrder ==
    /\ call.fn = "get_filter_combinations_criteria_multiple_orders"
    /\ ret.status = "running"
    /\ Len(ret.crits) < Len(call.criteria)
    /\ Len(ret.crits) < MaxEnumeratedOrder
    /\ ret' = GeneratorAfterNextOrder(ret, call.criteria)
    /\ UNCHANGED <<call, aggregator_vars>>

CallGenerator ==
    /\ call.fn = "get_filter_combinations_criteria_multiple_orders"
    /\ Len(call.criteria) <= Len(WASTE_FILTRATION_CRITERIA)
    /\ ret = Pending
    /\ ret' = Returned(GetFilterCombinations(call.criteria))
    /\ UNCHANGED <<call, aggregator_vars>>

CallMatcher ==
    /\ call.fn = "get_filter_criteria_counts"
    /\ ret = Pending
    /\ ret' = Returned(GetFilterCriteriaCounts(call.df, call.criteria, call.combos))
    /\ UNCHANGED <<call, aggregator_vars>>

CallLettersToIndex ==
    /\ call.fn = "convert_excel_column_letters_to_column_index"
    /\ ret = Pending
    /\ ret' = Returned(ColumnIndex(call.name))
    /\ UNCHANGED <<call, aggregator_vars>>

CallIndexToLetters ==
    /\ call.fn = "convert_excel_column_index_to_column_letters"
    /\ ret = Pending
    /\ ret' = Returned(ColumnLetters(call.n))
    /\ UNCHANGED <<call, aggregator_vars>>

CallLoadInitialFilteredData ==
    /\ call.fn = "load_initial_filtered_data"
    /\ ret = Pending
    /\ ret' = Returned(LoadInitial(call.file, call.load_existing, call.dataset,
                                   call.filter_column_name, call.filter_criteria,
                                   call.combination_operator))
    /\ UNCHANGED <<call, aggregator_vars>>

CallCheckSiteTotals ==
    /\ call.fn = "check_site_totals"
    /\ ret = Pending
    /\ ret' = Returned(CheckSiteTotals(call.df, call.site_ref_nums))
    /\ UNCHANGED <<call, aggregator_vars>>

----------------------------------------------------------------------------
(* Tabular Report Builder *)

\* str(value): the string representation, which tells two values apart
Str(value) == << "str", value >>

\* the set of the identifiers of every list of a per-order dict
RECURSIVE UnionOfValues(_)
UnionOfValues(d) ==
    IF d = << >> THEN {} ELSE Range(Head(d).value) \cup UnionOfValues(Tail(d))

\* the order's identifier lists concatenated, without the set and numpy.unique
RefsPerFilterOrderNotUnique(site_ref_nums_of_order) ==
    Flatten([ i \in DOMAIN site_ref_nums_of_order |-> site_ref_nums_of_order[i].value ])

\* site_refs_per_primary_filter_per_filter_order[name][order]: the set of the
\* order's identifiers, listed, then list(numpy.unique(numpy.array(...)))
RefsPerFilterOrder(site_ref_nums_of_order) ==
    SortedSeq(UnionOfValues(site_ref_nums_of_order))

\* a running set that is replaced by each order's identifiers instead of updated
ReplaceSiteRefs(site_refs, per_order) == Range(per_order)

\* site_refs.update(refs_per_filter_order): the running set of the builder
UpdateSiteRefs(site_refs, per_order) == site_refs \cup Range(per_order)

\* list(site_refs): the elements in the iteration order of the set
ListOfSet(site_refs, hash_seed) ==
    LET ranks == SortedSeq({ hash_seed[x] : x \in site_refs })
    IN [ i \in DOMAIN ranks |-> CHOOSE x \in site_refs : hash_seed[x] = ranks[i] ]

\* the records of one (scope, order) when observation_index is not incremented
RecordsOfOrderSameIndex(stats_output_dict, site_counts, site_ref_nums, observation_index) ==
    [ i \in DOMAIN site_counts |->
        [ stats_output_dict EXCEPT
            !.experiment_index = observation_index,
            !.waste_filter_criteria = Str(site_counts[i].key),
            !.num_sites = site_counts[i].value,
            !.site_ref_nums = Str(DictGet(site_ref_nums, site_counts[i].key)) ] ]

\* the records of one (scope, order): one per item of the order's counts dict
RECURSIVE RecordsOfOrder(_, _, _, _)
RecordsOfOrder(stats_output_dict, site_counts, site_ref_nums, observation_index) ==
    IF site_counts = << >> THEN << >>
    ELSE << [ stats_output_dict EXCEPT
                !.experiment_index = observation_index,
                !.waste_filter_criteria = Str(Head(site_counts).key),
                !.num_sites = Head(site_counts).value,
                !.site_ref_nums = Str(DictGet(site_ref_nums, Head(site_counts).key)) ] >>
         \o RecordsOfOrder(stats_output_dict, Tail(site_counts), site_ref_nums,
                           observation_index + 1)

\* the body of the loop over the filter orders of one scope, from order
\* each_filter_order (zero-based) on; acc = [df, observation_index, site_refs]
\* and the hash seed of the process
RECURSIVE OrdersOfScope(_, _, _, _, _)
OrdersOfScope(primary_filter_name, site_counts, site_ref_nums, each_filter_order, acc) ==
    IF each_filter_order >= Len(site_counts) \/ each_filter_order >= Len(site_ref_nums)
    THEN acc
    ELSE LET per_order == RefsPerFilterOrder(site_ref_nums[each_filter_order + 1])
             site_refs == UpdateSiteRefs(acc.site_refs, per_order)
             stats_output_dict ==
                [ experiment_index |-> 0,
                  primary_filter |-> Str(primary_filter_name),
                  waste_filter_criteria |-> Str(<< >>),
                  filter_order |-> each_filter_order + 1,
                  num_sites |-> 0,
                  site_ref_nums |-> Str(<< >>),
                  num_unique_per_filter_order |-> Len(per_order),
                  refs_per_filter_order |-> Str(per_order),
                  total_num_unique |-> Cardinality(site_refs),
                  \* str(list(site_refs)): the elements in the set's own order
                  total_unique_refs |-> Str(ListOfSet(site_refs, acc.hash_seed)) ]
             rows == RecordsOfOrder(stats_output_dict, site_counts[each_filter_order + 1],
                                    site_ref_nums[each_filter_order + 1],
                                    acc.observation_index)
         IN OrdersOfScope(primary_filter_name, site_counts, site_ref_nums,
                          each_filter_order + 1,
                          [ df |-> acc.df \o rows,
                            observation_index |-> acc.observation_index + Len(rows),
                            site_refs |-> site_refs,
                            hash_seed |-> acc.hash_seed ])

\* the state of the builder when it enters a scope: site_refs = set() is made
\* once, before the loop over the scopes
InitialAccumulator(hash_seed) ==
    [ df |-> << >>, observation_index |-> 1, site_refs |-> {}, hash_seed |-> hash_seed ]

\* a builder that makes site_refs = set() anew for every scope
RECURSIVE ScopesOfDictResetting(_, _)
ScopesOfDictResetting(d, acc) ==
    IF d = << >> THEN acc
    ELSE ScopesOfDictResetting(Tail(d),
            OrdersOfScope(Head(d).key, Head(d).value.filter_counts,
                          Head(d).value.site_ref_nums, 0,
                          [ acc EXCEPT !.site_refs = {} ]))

\* the loop over the items of filter_criteria_combinations_counts_dict
RECURSIVE ScopesOfDict(_, _)
ScopesOfDict(d, acc) ==
    IF d = << >> THEN acc
    ELSE ScopesOfDict(Tail(d),
                      OrdersOfScope(Head(d).key, Head(d).value.filter_counts,
                                    Head(d).value.site_ref_nums, 0, acc))

\* construct_count_statistics_dataframe(filter_criteria_combinations_counts_dict)
\* in a process whose hash seed is hash_seed
ConstructCountStatisticsDataframe(d, hash_seed) ==
    ScopesOfDict(d, InitialAccumulator(hash_seed)).df

CallBuilder ==
    /\ call.fn = "construct_count_statistics_dataframe"
    /\ ret = Pending
    /\ ret' = Returned(ConstructCountStatisticsDataframe(call.d, call.hash_seed))
    /\ UNCHANGED <<call, aggregator_vars>>

NextUnit ==
    \/ CallGenerator
    \/ BeginGenerator
    \/ EnumerateOrder
    \/ CallMatcher
    \/ CallLoadInitialFilteredData
    \/ CallLettersToIndex
    \/ CallIndexToLetters
    \/ CallCheckSiteTotals
    \/ CallBuilder

SpecUnit == InitUnit /\ [][NextUnit]_vars

----------------------------------------------------------------------------
(* Coordinate enrichment: single process and pool of worker processes *)

EASTING == "Easting"
NORTHING == "Northing"

\* convert_easting_northing_to_latitude_longitude: the projection, a function
\* of the easting and the northing, kept unevaluated
ConvertEastingNorthing(easting, northing) ==
    << << "latitude", easting, northing >>, << "longitude", easting, northing >> >>

\* extract_postcode_from_lat_long: what the reverse geocoder answers for the
\* coordinates ("NA" when it knows no location or no postcode), or "NA" when the
\* extraction is disabled
ExtractPostcode(latitude, longitude, enable_postcode_extraction, geocoder) ==
    IF enable_postcode_extraction THEN geocoder[<< latitude, longitude >>] ELSE "NA"

\* get_lat_long_postcode_from_easting_and_northing_worker
Worker(args, geocoder) ==
    LET converted == ConvertEastingNorthing(args.easting, args.northing)
    IN [ row_index |-> args.row_index,
         latitude |-> converted[1],
         longitude |-> converted[2],
         postcode |-> ExtractPostcode(converted[1], converted[2],
                                      args.enable_postcode_extraction, geocoder) ]

\* lines 201-210: one tuple of arguments per row, row_index counted from zero
ArgsList(df, enable_postcode_extraction) ==
    [ i \in DOMAIN df.rows |->
        [ row_index |-> i - 1,
          dataset_len |-> NumRows(df),
          easting |-> df.rows[i][EASTING],
          northing |-> df.rows[i][NORTHING],
          enable_postcode_extraction |-> enable_postcode_extraction ] ]

\* the three lists filled from a sequence of results, one append per result
ListsOf(results) ==
    [ latitudes |-> [ i \in DOMAIN results |-> results[i].latitude ],
      longitudes |-> [ i \in DOMAIN results |-> results[i].longitude ],
      postcodes |-> [ i \in DOMAIN results |-> results[i].postcode ] ]

\* get_lat_long_postcode_from_easting_and_northing_single_process: the rows in
\* order, each converted and appended
SingleProcess(df, enable_postcode_extraction, geocoder) ==
    ListsOf([ i \in DOMAIN df.rows |->
                Worker(ArgsList(df, enable_postcode_extraction)[i], geocoder) ])

Idle == [row_index |-> -1]

\* multiprocessing.Pool(processes=num_cores) and the start of pool.map: every
\* task queued in the order of args_list (one row per task: the chunk size of
\* pool.map is 1 up to four rows per worker), every worker idle
PoolStarted(args_list, num_cores) ==
    [ status |-> "running",
      queue |-> args_list,
      busy |-> [ w \in 1..num_cores |-> Idle ],
      completed |-> << >> ]

\* the results in the order the workers returned them
ResultsAsCompleted(completed) == completed

\* what pool.map returns: the results in the order of args_list
PoolMapResults(completed) ==
    [ i \in DOMAIN completed |->
        CHOOSE r \in Range(completed) : r.row_index = i - 1 ]

\* the sheets of n sites with an easting and a northing
CoordinateSheets(n) ==
    { DataFrame({EASTING, NORTHING},
        [ i \in 1..n |-> [ c \in {EASTING, NORTHING} |->
            IF c = EASTING THEN at[i] ELSE 1 ] ]) :
        at \in [ 1..n -> { 1, 2 } ] }

\* what the reverse geocoder may answer for the coordinates of the sheets
Geocoders ==
    [ { ConvertEastingNorthing(e, 1) : e \in { 1, 2 } } -> { "NA", "AB1 2CD" } ]

InitPool ==
    /\ \E n \in 0..MaxSites :
       \E df \in CoordinateSheets(n), enable_postcode_extraction \in BOOLEAN,
          geocoder \in Geocoders :
            \/ call = [fn |-> "get_lat_long_postcode_from_easting_and_northing_single_process",
                       hld_df |-> df,
                       enable_postcode_extraction |-> enable_postcode_extraction,
                       geocoder |-> geocoder]
            \/ \E num_cores \in 1..MaxWorkers :
                call = [fn |-> "get_lat_long_postcode_from_easting_and_northing_multiple_processes",
                        hld_df |-> df,
                        enable_postcode_extraction |-> enable_postcode_extraction,
                        num_cores |-> num_cores,
                        geocoder |-> geocoder]
    /\ ret = Pending
    /\ AggregatorIdle

CallSingleProcess ==
    /\ call.fn = "get_lat_long_postcode_from_easting_and_northing_single_process"
    /\ ret = Pending
    /\ ret' = Returned(SingleProcess(call.hld_df, call.enable_postcode_extraction,
                                     call.geocoder))
    /\ UNCHANGED <<call, aggregator_vars>>

\* lines 196-213: the arguments are listed, the pool is created and pool.map
\* hands the tasks to it
StartPool ==
    /\ call.fn = "get_lat_long_postcode_from_easting_and_northing_multiple_processes"
    /\ ret = Pending
    /\ ret' = PoolStarted(ArgsList(call.hld_df, call.enable_postcode_extraction),
                          call.num_cores)
    /\ UNCHANGED <<call, aggregator_vars>>

\* an idle worker process takes the next task of the queue
WorkerTakesTask ==
    /\ ret.status = "running"
    /\ ret.queue # << >>
    /\ \E w \in DOMAIN ret.busy :
        /\ ret.busy[w] = Idle
        /\ ret' = [ret EXCEPT !.busy[w] = Head(ret.queue), !.queue = Tail(ret.queue)]
    /\ UNCHANGED <<call, aggregator_vars>>

\* a worker process returns the result of its task and is idle again
WorkerReturnsResult ==
    /\ ret.status = "running"
    /\ \E w \in DOMAIN ret.busy :
        /\ ret.busy[w] # Idle
        /\ ret' = [ret EXCEPT !.busy[w] = Idle,
                              !.completed = Append(@, Worker(ret.busy[w], call.geocoder))]
    /\ UNCHANGED <<call, aggregator_vars>>

\* lines 213-223: every task is done, pool.map returns and the loop appends
\* each result to the three lists
CollectResults ==
    /\ ret.status = "running"
    /\ ret.queue = << >>
    /\ \A w \in DOMAIN ret.busy : ret.busy[w] = Idle
    /\ ret' = [ status |-> "returned",
                value |-> ListsOf(PoolMapResults(ret.completed)),
                completed |-> ret.completed ]
    /\ UNCHANGED <<call, aggregator_vars>>

NextPool ==
    \/ CallSingleProcess
    \/ StartPool
    \/ WorkerTakesTask
    \/ WorkerReturnsResult
    \/ CollectResults

SpecPool == InitPool /\ [][NextPool]_vars

----------------------------------------------------------------------------
(* Cross-Scope Aggregator: get_count_statistics_filter_criteria *)

\* the "Sites" sheet of n sites, each on, adjacent to or off a CE property (the
\* sites listed have an Easting and a Northing: filter_dataset keeps them)
Datasets(n) ==
    { DataFrame(SiteColumns \cup {HLD_REFERENCE},
        [ i \in 1..n |-> [ c \in SiteColumns \cup {HLD_REFERENCE} |->
            IF c = HLD_REFERENCE THEN i
            ELSE IF c = on_and_adjacent_ce_property_filter_column_name THEN ce[i]
            ELSE IF cells[i][c] THEN "Yes" ELSE "No" ] ]) :
        ce \in [ 1..n -> { "Yes", "Adjacent", "No" } ],
        cells \in [ 1..n -> [ SiteColumns -> BOOLEAN ] ] }

\* the column a sheet may lack ("" for none): a waste criterion, a secondary
\* filter column or the CE property column
MissingColumns ==
    { "", Criteria[Len(Criteria)], NEARBY_COLUMN,
      on_and_adjacent_ce_property_filter_column_name }

\* the sheets that lack the column: one sheet for each content of the others
Lacking(dataset, missing) ==
    missing # "" => \A i \in DOMAIN dataset.rows : dataset.rows[i][missing] = "No"

\* the parameter lists the runs are called with: (name, value) and (name, column)
PrimaryChoices ==
    { << >>,
      << << << "# Sites on CE" >>, "Yes" >> >>,
      << << << "# Sites on CE" >>, "Yes" >>, << << "# Sites adj CE" >>, "Adjacent" >> >>,
      << << << "# Sites CE" >>, "Yes" >>, << << "# Sites CE" >>, "Adjacent" >> >> }

SecondaryChoices ==
    { << >>,
      << << << "Borders" >>, BORDERS_COLUMN >> >>,
      << << << "Borders" >>, BORDERS_COLUMN >>, << << "Nearby" >>, NEARBY_COLUMN >> >>,
      << << << "Borders" >>, BORDERS_COLUMN >>, << << "Nearby" >>, NEARBY_COLUMN >>,
         << << "Borders again" >>, BORDERS_COLUMN >> >> }

\* zip(*filter_criteria): the names and the values / columns
Names(filter_criteria) == [ i \in DOMAIN filter_criteria |-> filter_criteria[i][1] ]
Unzipped(filter_criteria) == [ i \in DOMAIN filter_criteria |-> filter_criteria[i][2] ]

Init ==
    /\ call = NoCall
    /\ ret = Pending
    /\ pc = "combinations"
    /\ enable_permutation \in BOOLEAN
    /\ primary_filter_criteria \in PrimaryChoices
    /\ secondary_filter_criteria \in SecondaryChoices
    /\ combs = NoCombs
    /\ perms = NoCombs
    /\ pickle_file \in { NoFile, [exists |-> TRUE] }
    /\ hld_df = NoTable
    /\ primary_data_dict = << >>
    /\ secondary_data_dict = << >>
    /\ counts_dict = << >>
    /\ cursor = << 0, 0 >>
    /\ count_statistics_df = << >>
    /\ worksheet = << >>
    /\ raised = ""

\* an exception that is recorded while the run goes on to the worksheet write
SwallowAndSave(exception) == pc' = "save" /\ raised' = exception

\* an exception leaves the function: nothing after the raising statement runs
Fail(exception) == pc' = "failed" /\ raised' = exception

\* lines 455-459: the combinations are enumerated first
GetCombinations ==
    /\ pc = "combinations"
    /\ combs' = GetFilterCombinations(Criteria)
    /\ pc' = "unzip"
    /\ UNCHANGED <<call, ret, enable_permutation, primary_filter_criteria,
                   secondary_filter_criteria, perms, pickle_file, hld_df,
                   primary_data_dict, secondary_data_dict, counts_dict, cursor,
                   count_statistics_df, worksheet, raised>>

\* lines 462-467: unpacking zip(*[]) into two names raises ValueError
UnzipFilters ==
    /\ pc = "unzip"
    /\ IF primary_filter_criteria = << >> \/ secondary_filter_criteria = << >>
       THEN Fail("ValueError")
       ELSE pc' = "mode" /\ raised' = raised
    /\ UNCHANGED <<call, ret, enable_permutation, primary_filter_criteria,
                   secondary_filter_criteria, combs, perms, pickle_file, hld_df,
                   primary_data_dict, secondary_data_dict, counts_dict, cursor,
                   count_statistics_df, worksheet>>

\* a run that ignores enable_permutation and goes on with the combinations
PermutationBranchSkipped == FALSE

\* line 472, "if enable_permutation:": the branch of the permutation mode is taken
PermutationBranch == enable_permutation

\* lines 472-491: the permutations are enumerated, then the mode is refused
RefusePermutations ==
    /\ pc = "mode"
    /\ PermutationBranch
    /\ perms' = GetFilterPermutations(Criteria)
    /\ Fail("NotImplementedError")
    /\ UNCHANGED <<call, ret, enable_permutation, primary_filter_criteria,
                   secondary_filter_criteria, combs, pickle_file, hld_df,
                   primary_data_dict, secondary_data_dict, counts_dict, cursor,
                   count_statistics_df, worksheet>>

\* lines 493-505, load_initial_filtered_data. The sheet read is any sheet of up
\* to MaxRows sites, possibly lacking a column; a file found at the start holds a
\* table saved earlier, by this or another version of the program, which the
\* read reveals
LoadInitialFilteredData ==
    /\ pc = "mode"
    /\ ~ PermutationBranch
    /\ \E load_existing \in BOOLEAN, n \in 0..MaxRows :
       \E dataset \in Datasets(n), missing \in MissingColumns,
          combination_operator \in { "None", "or_", "and_" } :
            /\ Lacking(dataset, missing)
            /\ LET saved == FilterDataset(DropColumn(dataset, missing),
                                on_and_adjacent_ce_property_filter_column_name,
                                << "Yes", "Adjacent" >>, combination_operator)
                   file == IF pickle_file.exists THEN FileHolding(saved.df) ELSE NoFile
                   loaded == LoadInitial(file, load_existing, DropColumn(dataset, missing),
                                on_and_adjacent_ce_property_filter_column_name,
                                Unzipped(primary_filter_criteria), combination_operator)
               IN /\ UseExisting(file, load_existing) =>
                        saved.raised = "" /\ combination_operator # "and_"
                  /\ IF loaded.raised # ""
                     THEN Fail(loaded.raised) /\ UNCHANGED <<hld_df, pickle_file>>
                     ELSE /\ hld_df' = loaded.df
                          /\ pickle_file' = loaded.file
                          /\ pc' = "root" /\ raised' = raised
    /\ UNCHANGED <<call, ret, enable_permutation, primary_filter_criteria,
                   secondary_filter_criteria, combs, perms,
                   primary_data_dict, secondary_data_dict, counts_dict, cursor,
                   count_statistics_df, worksheet>>

\* the statistics of the root table whatever scope is asked for
RootStatistics(df) ==
    LET got == GetFilterCriteriaCounts(hld_df, Criteria, combs.crits)
    IN IF got.raised # "" THEN [raised |-> got.raised]
       ELSE [raised |-> CheckSiteTotals(hld_df, got.site_ref_nums),
             value |-> [filter_counts |-> got.filter_counts,
                        site_ref_nums |-> got.site_ref_nums]]

\* get_filter_criteria_counts then check_site_totals on one scope's table:
\* the exception raised ("" if none) and the statistics of the scope
ScopeStatistics(df) ==
    LET got == GetFilterCriteriaCounts(df, Criteria, combs.crits)
    IN IF got.raised # "" THEN [raised |-> got.raised]
       ELSE [raised |-> CheckSiteTotals(df, got.site_ref_nums),
             value |-> [filter_counts |-> got.filter_counts,
                        site_ref_nums |-> got.site_ref_nums]]

\* lines 507-522: the root scope
MatchRootScope ==
    /\ pc = "root"
    /\ LET stats == ScopeStatistics(hld_df)
       IN IF stats.raised # ""
          THEN Fail(stats.raised) /\ UNCHANGED <<primary_data_dict, counts_dict, cursor>>
          ELSE /\ primary_data_dict' = DictSet(<< >>, ROOT_SCOPE_NAME, hld_df)
               /\ counts_dict' = DictSet(<< >>, ROOT_SCOPE_NAME, stats.value)
               /\ cursor' = << 1, 0 >>
               /\ pc' = "primary" /\ raised' = raised
    /\ UNCHANGED <<call, ret, enable_permutation, primary_filter_criteria,
                   secondary_filter_criteria, combs, perms, pickle_file, hld_df,
                   secondary_data_dict, count_statistics_df, worksheet>>

\* lines 525-539: one iteration of the loop over the primary filters
MatchPrimaryScope ==
    /\ pc = "primary"
    /\ cursor[1] <= Len(primary_filter_criteria)
    /\ LET filter_criteria_name == primary_filter_criteria[cursor[1]][1]
           filter_criteria == primary_filter_criteria[cursor[1]][2]
           temp_df == FilterEq(hld_df, on_and_adjacent_ce_property_filter_column_name,
                               filter_criteria)
           stats == ScopeStatistics(temp_df)
       IN IF on_and_adjacent_ce_property_filter_column_name \notin hld_df.columns
          THEN Fail("KeyError") /\ UNCHANGED <<primary_data_dict, counts_dict, cursor>>
          ELSE IF stats.raised # ""
          THEN Fail(stats.raised) /\ UNCHANGED <<primary_data_dict, counts_dict, cursor>>
          ELSE /\ counts_dict' = DictSet(counts_dict, filter_criteria_name, stats.value)
               /\ primary_data_dict' = DictSet(primary_data_dict, filter_criteria_name, temp_df)
               /\ cursor' = << cursor[1] + 1, 0 >>
               /\ pc' = pc /\ raised' = raised
    /\ UNCHANGED <<call, ret, enable_permutation, primary_filter_criteria,
                   secondary_filter_criteria, combs, perms, pickle_file, hld_df,
                   secondary_data_dict, count_statistics_df, worksheet>>

\* line 543: the loop over the secondary filters starts (filter_index = 0)
EnterSecondaryLoop ==
    /\ pc = "primary"
    /\ cursor[1] > Len(primary_filter_criteria)
    /\ pc' = "secondary"
    /\ cursor' = << 0, 1 >>
    /\ UNCHANGED <<call, ret, enable_permutation, primary_filter_criteria,
                   secondary_filter_criteria, combs, perms, pickle_file, hld_df,
                   primary_data_dict, secondary_data_dict, counts_dict,
                   count_statistics_df, worksheet, raised>>

\* lines 544-583: one iteration of the inner loop, for filter_index = cursor[1]
\* (zero-based) and the item cursor[2] of hld_df_primary_filter_criteria_data_dict
MatchSecondaryScope ==
    /\ pc = "secondary"
    /\ cursor[1] <= Len(secondary_filter_criteria)
    /\ cursor[2] <= Len(primary_data_dict)
    /\ LET filter_index == cursor[1]
           primary_filter_name == primary_data_dict[cursor[2]].key
           primary_filtered_data == primary_data_dict[cursor[2]].value
           secondary_filter_criteria_names == Names(secondary_filter_criteria)
           secondary_filter_criteria_un == Unzipped(secondary_filter_criteria)
           single == filter_index < Len(secondary_filter_criteria)
           filter_criteria_name ==
                IF single
                THEN primary_filter_name \o << " + " >>
                        \o secondary_filter_criteria_names[filter_index + 1]
                ELSE primary_filter_name \o << " + " >> \o secondary_filter_criteria_names[1]
                        \o << " + " >> \o secondary_filter_criteria_names[2]
           temp_df ==
                IF single
                THEN FilterEq(primary_filtered_data,
                              secondary_filter_criteria_un[filter_index + 1], "Yes")
                ELSE FilterAllYes(primary_filtered_data, Range(secondary_filter_criteria_un))
           stats == ScopeStatistics(temp_df)
           last == cursor[2] = Len(primary_data_dict)
           asked == IF single THEN { secondary_filter_criteria_un[filter_index + 1] }
                    ELSE Range(secondary_filter_criteria_un)
       IN IF ~ single /\ Len(secondary_filter_criteria) < 2
          THEN Fail("IndexError")
                /\ UNCHANGED <<secondary_data_dict, counts_dict, cursor>>
          ELSE IF ~ (asked \subseteq primary_filtered_data.columns)
          THEN Fail("KeyError")
                /\ UNCHANGED <<secondary_data_dict, counts_dict, cursor>>
          ELSE IF stats.raised # ""
          THEN Fail(stats.raised)
                /\ UNCHANGED <<secondary_data_dict, counts_dict, cursor>>
          ELSE /\ counts_dict' = DictSet(counts_dict, filter_criteria_name, stats.value)
               /\ secondary_data_dict' =
                    DictSet(secondary_data_dict, filter_criteria_name, temp_df)
               /\ cursor' = IF last THEN << filter_index + 1, 1 >>
                            ELSE << filter_index, cursor[2] + 1 >>
               /\ pc' = pc /\ raised' = raised
    /\ UNCHANGED <<call, ret, enable_permutation, primary_filter_criteria,
                   secondary_filter_criteria, combs, perms, pickle_file, hld_df,
                   primary_data_dict, count_statistics_df, worksheet>>

\* lines 585-587: the report is built from the whole dict
BuildReport ==
    /\ pc = "secondary"
    /\ cursor[1] > Len(secondary_filter_criteria)
    /\ \E hash_seed \in HashSeeds(MaxRows) :
        count_statistics_df' = ConstructCountStatisticsDataframe(counts_dict, hash_seed)
    /\ pc' = "save"
    /\ UNCHANGED <<call, ret, enable_permutation, primary_filter_criteria,
                   secondary_filter_criteria, combs, perms, pickle_file, hld_df,
                   primary_data_dict, secondary_data_dict, counts_dict, cursor,
                   worksheet, raised>>

\* lines 588-592: the worksheet is cleared and overwritten with the report
SaveDataframeToExistingWorksheet ==
    /\ pc = "save"
    /\ worksheet' = count_statistics_df
    /\ pc' = "done"
    /\ UNCHANGED <<call, ret, enable_permutation, primary_filter_criteria,
                   secondary_filter_criteria, combs, perms, pickle_file, hld_df,
                   primary_data_dict, secondary_data_dict, counts_dict, cursor,
                   count_statistics_df, raised>>

Next ==
    \/ GetCombinations
    \/ UnzipFilters
    \/ RefusePermutations
    \/ LoadInitialFilteredData
    \/ MatchRootScope
    \/ MatchPrimaryScope
    \/ EnterSecondaryLoop
    \/ MatchSecondaryScope
    \/ BuildReport
    \/ SaveDataframeToExistingWorksheet

Spec == Init /\ [][Next]_vars

----------------------------------------------------------------------------
(* Claims about the unit calls *)

MatcherReturned ==
    /\ call.fn = "get_filter_criteria_counts"
    /\ ret.status = "returned"
    /\ ret.value.raised = ""

\* positions of the rows of df whose cell is exactly "Yes" in every column of C
RowsAllYes(df, C) ==
    { i \in DOMAIN df.rows : \A c \in Range(C) : df.rows[i][c] = "Yes" }

\* C1: for every combination C handed to the Row Matcher, the returned count is
\* the number of rows whose cell is exactly "Yes" in every criterion column of C,
\* and the returned identifiers are the references of exactly those rows
\* (whatever their other cells hold).
C1_MatcherAndSemantics ==
    MatcherReturned =>
        \A o \in DOMAIN call.combos : \A j \in DOMAIN call.combos[o] :
            LET C == call.combos[o][j]
                yes == RowsAllYes(call.df, C)
            IN /\ DictHas(ret.value.filter_counts[o], C)
               /\ DictHas(ret.value.site_ref_nums[o], C)
               /\ DictGet(ret.value.filter_counts[o], C) = Cardinality(yes)
               /\ Range(DictGet(ret.value.site_ref_nums[o], C))
                    = { call.df.rows[i][HLD_REFERENCE] : i \in yes }

\* a table with a row matching a one-criterion combination although it also holds
\* another criterion, and a row rejected for a cell that is neither "Yes" nor "No"
C1_Witness ==
    /\ MatcherReturned
    /\ Len(call.criteria) = 2
    /\ NumRows(call.df) = 2
    /\ \E i, j \in DOMAIN call.df.rows :
        /\ call.df.rows[i][call.criteria[1]] = "Yes"
        /\ call.df.rows[i][call.criteria[2]] = "Yes"
        /\ call.df.rows[j][call.criteria[1]] = "yes"
        /\ DictGet(ret.value.filter_counts[1], << call.criteria[1] >>) = 1

RECURSIVE Binomial(_, _)
Binomial(n, k) ==
    IF k = 0 THEN 1
    ELSE IF n = 0 THEN 0
    ELSE Binomial(n - 1, k - 1) + Binomial(n - 1, k)

RECURSIVE Pow2(_)
Pow2(n) == IF n = 0 THEN 1 ELSE 2 * Pow2(n - 1)

GeneratorReturned ==
    /\ call.fn = "get_filter_combinations_criteria_multiple_orders"
    /\ ret.status = "returned"

\* C6: for N distinct criteria the generator returns, for each order k in 1..N,
\* exactly C(N,k) combinations, all of size k and pairwise distinct as sets, so the
\* total is 2^N - 1 (10,45,120,210,252,210,120,45,10,1 and 1023 for N = 10; empty
\* lists for N = 0).
C6_CombinationCounts ==
    GeneratorReturned =>
        LET N == Len(call.criteria)
            crits == ret.value.crits
        IN /\ DOMAIN crits = 1..N
           /\ \A k \in 1..N :
                /\ Len(crits[k]) = Binomial(N, k)
                /\ \A i \in DOMAIN crits[k] :
                    /\ Len(crits[k][i]) = k
                    /\ Cardinality(Range(crits[k][i])) = k
                /\ Cardinality({ Range(crits[k][i]) : i \in DOMAIN crits[k] })
                    = Len(crits[k])
           /\ SumSeq([ k \in 1..N |-> Len(crits[k]) ]) = Pow2(N) - 1
           /\ (N = 10 => [ k \in 1..N |-> Len(crits[k]) ]
                            = << 10, 45, 120, 210, 252, 210, 120, 45, 10, 1 >>)
           /\ (N = 0 => /\ ret.value.crits = << >>
                        /\ ret.value.nums = << >>
                        /\ ret.value.chars = << >>)

\* the generator has run on the ten criteria of the program and returned 1023
\* combinations
C6_Witness ==
    /\ GeneratorReturned
    /\ call.criteria = WASTE_FILTRATION_CRITERIA
    /\ SumSeq([ k \in DOMAIN ret.value.crits |-> Len(ret.value.crits[k]) ]) = 1023

NoDuplicates(s) == \A i, j \in DOMAIN s : s[i] = s[j] => i = j

\* C7: for every table and every combination, the identifier list returned by
\* the Row Matcher has as many elements as the returned count and holds no
\* identifier twice.
C7_IdentifiersMatchCount ==
    MatcherReturned =>
        \A o \in DOMAIN call.combos : \A j \in DOMAIN call.combos[o] :
            LET C == call.combos[o][j]
                ids == DictGet(ret.value.site_ref_nums[o], C)
            IN /\ Len(ids) = DictGet(ret.value.filter_counts[o], C)
               /\ NoDuplicates(ids)

\* a combination of two criteria matched by both rows of a table
C7_Witness ==
    /\ MatcherReturned
    /\ Len(call.criteria) = 2
    /\ DictGet(ret.value.filter_counts[2], call.criteria) = 2
    /\ Len(DictGet(ret.value.site_ref_nums[2], call.criteria)) = 2

CheckReturned ==
    /\ call.fn = "check_site_totals"
    /\ ret.status = "returned"

\* the distinct identifiers of all orders and all combinations
DistinctIdentifiers(site_ref_nums) ==
    UNION { Range(site_ref_nums[o][j].value) :
                <<o, j>> \in { <<o, j>> \in (DOMAIN site_ref_nums) \X (1..2) :
                                    j \in DOMAIN site_ref_nums[o] } }

\* C9: check_site_totals raises (assertion failure) if and only if the number of
\* distinct identifiers across all orders and combinations exceeds the number of
\* rows of the scope; otherwise it returns normally.
C9_CheckRaisesIffExceeds ==
    CheckReturned =>
        /\ ret.value \in { "", "AssertionError" }
        /\ (ret.value = "AssertionError"
              <=> Cardinality(DistinctIdentifiers(call.site_ref_nums)) > NumRows(call.df))

\* a failing call: three distinct identifiers against a table of two rows
C9_Witness ==
    /\ CheckReturned
    /\ ret.value = "AssertionError"
    /\ NumRows(call.df) = 2
    /\ Cardinality(DistinctIdentifiers(call.site_ref_nums)) = 3

----------------------------------------------------------------------------
(* Claims about the aggregator runs *)

ReportBuilt == pc \in { "save", "done" }

\* the name of the scope a record belongs to
ScopeOf(record) == record.primary_filter[2]

\* the rows of a scope, by its name
ScopeTable(name) ==
    IF DictHas(primary_data_dict, name) THEN DictGet(primary_data_dict, name)
    ELSE DictGet(secondary_data_dict, name)

\* the identifiers matched by any combination of order k in the scope called name
OrderIdentifiers(name, k) ==
    LET d == DictGet(counts_dict, name).site_ref_nums[k]
    IN UNION { Range(d[i].value) : i \in DOMAIN d }

\* C2: for every scope and order k, the deduplicated identifier list written by
\* the report builder holds each identifier once and is, as a set, the union of
\* the identifier lists of all combinations of order k in that scope; the
\* reported count is the size of that union.
C2_PerOrderDeduplicated ==
    \A n \in DOMAIN count_statistics_df :
        LET r == count_statistics_df[n]
            listed == r.refs_per_filter_order[2]
        IN /\ NoDuplicates(listed)
           /\ Range(listed) = OrderIdentifiers(ScopeOf(r), r.filter_order)
           /\ r.num_unique_per_filter_order
                = Cardinality(OrderIdentifiers(ScopeOf(r), r.filter_order))

\* a report in which one site is matched by two combinations of order 1 of the
\* root scope and is listed once
C2_Witness ==
    /\ ReportBuilt
    /\ \E n \in DOMAIN count_statistics_df :
        LET r == count_statistics_df[n]
            d == DictGet(counts_dict, ScopeOf(r)).site_ref_nums[1]
        IN /\ ScopeOf(r) = ROOT_SCOPE_NAME
           /\ r.filter_order = 1
           /\ Len(d) = 2
           /\ Range(d[1].value) \cap Range(d[2].value) # {}
           /\ r.num_unique_per_filter_order = 2

\* C3: for every scope S and order k, the reported number of unique site
\* references of (S, k) is at most the number of rows of S, even when the
\* combinations of the order overlap.
C3_PerOrderCountWithinScope ==
    \A n \in DOMAIN count_statistics_df :
        LET r == count_statistics_df[n]
        IN r.num_unique_per_filter_order <= NumRows(ScopeTable(ScopeOf(r)))

\* a primary scope of one row, smaller than the root, whose row is matched by
\* both combinations of order 1
C3_Witness ==
    /\ ReportBuilt
    /\ \E n \in DOMAIN count_statistics_df :
        LET r == count_statistics_df[n]
            d == DictGet(counts_dict, ScopeOf(r)).site_ref_nums[1]
        IN /\ DictHas(primary_data_dict, ScopeOf(r))
           /\ ScopeOf(r) # ROOT_SCOPE_NAME
           /\ NumRows(ScopeTable(ScopeOf(r))) = 1
           /\ NumRows(hld_df) = 2
           /\ r.filter_order = 1
           /\ Len(d) = 2 /\ Len(d[1].value) = 1 /\ Len(d[2].value) = 1
           /\ r.num_unique_per_filter_order = 1

\* the records of the last order of their scope
LastOrderRecords ==
    { n \in DOMAIN count_statistics_df :
        count_statistics_df[n].filter_order
            = Len(DictGet(counts_dict, ScopeOf(count_statistics_df[n])).site_ref_nums) }

ScopesUpTo(name) ==
    { DictKeys(counts_dict)[i] :
        i \in { i \in DOMAIN counts_dict :
                  \E j \in DOMAIN counts_dict : i <= j /\ counts_dict[j].key = name } }

\* the identifiers the builder has met when it writes the records of (name, k):
\* every order of every earlier scope, and the orders 1..k of the scope itself
MetIdentifiers(name, k) ==
    UNION { OrderIdentifiers(other, o) :
              <<other, o>> \in { <<other, o>> \in ScopesUpTo(name) \X (1..MaxCriteria) :
                    /\ o \in DOMAIN DictGet(counts_dict, other).site_ref_nums
                    /\ (other = name => o <= k) } }

OwnIdentifiers(name, k) ==
    UNION { OrderIdentifiers(name, o) : o \in 1..k }

NumPrimary == Len(primary_filter_criteria)
NumSecondary == Len(secondary_filter_criteria)

\* the references of the rows of a table at the positions kept
RefsAt(df, kept) == { df.rows[i][HLD_REFERENCE] : i \in kept }

RefsOf(df) == { df.rows[i][HLD_REFERENCE] : i \in DOMAIN df.rows }

ScopeNamesDistinct ==
    /\ NoDuplicates(<< ROOT_SCOPE_NAME >> \o Names(primary_filter_criteria))
    /\ NoDuplicates(Names(secondary_filter_criteria))

C10_NothingComputedBeforeRefusal ==
    raised = "NotImplementedError" =>
        /\ combs = NoCombs
        /\ perms = NoCombs
        /\ hld_df = NoTable
        /\ counts_dict = << >>
        /\ count_statistics_df = << >>
        /\ worksheet = << >>

\* the run has stopped: it returned or an exception left the function
Ended == pc \in { "done", "failed" }

\* the run is in permutation mode with non-empty filter lists
PermutationRun ==
    /\ pc # "idle"
    /\ enable_permutation
    /\ primary_filter_criteria # << >>
    /\ secondary_filter_criteria # << >>

\* in a permutation run no row is matched, no table loaded, no report built and
\* nothing written, and the only way the run stops is NotImplementedError
PermutationRunComputesNoStatistics ==
    PermutationRun =>
        /\ pc \in { "combinations", "unzip", "mode", "failed" }
        /\ (pc = "failed" <=> raised = "NotImplementedError")
        /\ raised \in { "", "NotImplementedError" }
        /\ hld_df = NoTable
        /\ primary_data_dict = << >>
        /\ secondary_data_dict = << >>
        /\ counts_dict = << >>
        /\ count_statistics_df = << >>
        /\ worksheet = << >>

\* how far the call has got: the statements are run in this order
Position(at) ==
    CASE at = "idle" -> 0
      [] at = "combinations" -> 1
      [] at = "unzip" -> 2
      [] at = "mode" -> 3
      [] at = "root" -> 4
      [] at = "primary" -> 5
      [] at = "secondary" -> 6
      [] at = "save" -> 7
      [] at = "done" -> 8
      [] at = "failed" -> 8

\* C11: with enable_permutation = true and non-empty primary and secondary
\* filter lists, the run never falls back to combinations: the Row Matcher, the
\* Report Builder and the worksheet write are never invoked and no statistics
\* table is returned; the run cannot stop otherwise than by NotImplementedError
\* (while it has not, a next statement can run) and every statement moves it
\* forward, so it always ends in NotImplementedError.
C11_PermutationRunAlwaysRefused ==
    /\ [] PermutationRunComputesNoStatistics
    /\ [] ((PermutationRun /\ raised # "NotImplementedError") => ENABLED Next)
    /\ [][PermutationRun => Position(pc') > Position(pc)]_vars

\* a permutation run with two primary and two secondary filters, refused
C11_Witness ==
    /\ PermutationRun
    /\ Len(primary_filter_criteria) = 2 /\ Len(secondary_filter_criteria) = 2
    /\ pc = "failed"
    /\ raised = "NotImplementedError"
    /\ perms # NoCombs

\* the matcher was called with a combination naming a column the table lacks
UnknownCriterionAsked ==
    /\ call.fn = "get_filter_criteria_counts"
    /\ ret.status = "returned"
    /\ \E o \in DOMAIN call.combos : \E j \in DOMAIN call.combos[o] :
            ~ (Range(call.combos[o][j]) \subseteq call.df.columns)

\* C12: if any combination passed to the Row Matcher names a criterion that is
\* not a column of the table, get_filter_criteria_counts raises a schema error
\* (KeyError) before any combination has been matched against the rows, and
\* returns no counts.
C12_UnknownCriterionRaisesBeforeMatching ==
    UnknownCriterionAsked =>
        /\ ret.value.raised = "KeyError"
        /\ ret.value.matched = 0
        /\ DOMAIN ret.value = { "raised", "matched" }

\* the names of the scopes a complete run gathers: the root and the primary
\* names, and each of them composed with each secondary name and with the conjunction
ParentScopeNames == << ROOT_SCOPE_NAME >> \o Names(primary_filter_criteria)

ComposedScopeNames ==
    { ParentScopeNames[j] \o << " + " >> \o Names(secondary_filter_criteria)[f] :
        j \in DOMAIN ParentScopeNames, f \in DOMAIN secondary_filter_criteria }
    \cup { ParentScopeNames[j] \o << " + " >> \o Names(secondary_filter_criteria)[1]
                \o << " + " >> \o Names(secondary_filter_criteria)[2] :
            j \in DOMAIN ParentScopeNames }

\* every scope has been matched on its table and has passed check_site_totals,
\* and the report is the one built from all of them
EveryScopeMatchedAndReportBuilt ==
    /\ raised = ""
    /\ Len(secondary_filter_criteria) >= 2
    /\ Range(DictKeys(primary_data_dict)) = Range(ParentScopeNames)
    /\ Range(DictKeys(secondary_data_dict)) = ComposedScopeNames
    /\ Range(DictKeys(counts_dict)) = Range(ParentScopeNames) \cup ComposedScopeNames
    /\ \A i \in DOMAIN counts_dict :
        LET table == ScopeTable(counts_dict[i].key)
            got == GetFilterCriteriaCounts(table, Criteria, combs.crits)
        IN /\ got.raised = ""
           /\ counts_dict[i].value.filter_counts = got.filter_counts
           /\ counts_dict[i].value.site_ref_nums = got.site_ref_nums
           /\ SiteTotalsWithinRows(table, got.site_ref_nums)
    /\ \E hash_seed \in HashSeeds(MaxRows) :
        count_statistics_df = ConstructCountStatisticsDataframe(counts_dict, hash_seed)
    /\ count_statistics_df # << >>

\* the worksheet holds what it held when the run started
NothingWritten == worksheet = << >>

\* C13: no partial output. The worksheet is written at most once in a run, by
\* the step that follows the building of the report, when every scope has been
\* matched and has passed check_site_totals; in a run that raised (schema
\* error, invariant violation, unsupported mode or any other exception) the
\* worksheet write is never invoked.
C13_NoPartialOutput ==
    /\ [] (pc = "done" => EveryScopeMatchedAndReportBuilt /\ worksheet = count_statistics_df)
    /\ [] (pc # "done" => NothingWritten)
    /\ [] (raised # "" => pc = "failed")
    /\ [][worksheet' # worksheet =>
            pc = "save" /\ pc' = "done" /\ EveryScopeMatchedAndReportBuilt]_vars
    /\ [][pc = "save" => pc' = "done"]_vars
    /\ [][pc # "done"]_vars

\* a run that met a schema error in the secondary loop, after the root, the
\* primary and some composed scopes had been matched: nothing is written
C13_Witness ==
    /\ pc = "failed"
    /\ raised = "KeyError"
    /\ Len(primary_data_dict) = 3
    /\ Len(secondary_data_dict) = 3
    /\ Len(counts_dict) = 6
    /\ NothingWritten

\* C14: the j-th record of the flattened report (j counted from 1 over the whole
\* output, across all scopes and orders) carries 'Experiment Index' = j: the
\* indices start at 1, increase by one and are never reset between scopes or
\* orders.
C14_ExperimentIndexIsPosition ==
    \A j \in DOMAIN count_statistics_df : count_statistics_df[j].experiment_index = j

\* a report of twelve scopes whose last record, the 36th, belongs to a composed
\* scope and carries the index 36
C14_Witness ==
    /\ ReportBuilt
    /\ Len(counts_dict) = 12
    /\ Len(count_statistics_df) = 36
    /\ ScopeOf(count_statistics_df[36]) # ROOT_SCOPE_NAME
    /\ count_statistics_df[36].experiment_index = 36
    /\ count_statistics_df[36].filter_order = 2

\* the combinations in generation order: ascending order k, then the order in
\* which the generator emitted them
AllCombinations == Flatten(combs.crits)

\* C15: the flattened report holds exactly one record per (scope, order,
\* combination) of the aggregated statistics, (number of scopes) * (2^N - 1)
\* records, in scope insertion order, then ascending order k, then combination
\* generation order; the 'Filter Order' of a record is the number of criteria of
\* its combination and its 'Num sites' is the number of rows of its scope that
\* match the combination.
C15_OneRecordPerScopeOrderCombination ==
    ReportBuilt =>
        LET M == Len(AllCombinations)
        IN /\ M = Pow2(Len(Criteria)) - 1
           /\ Len(count_statistics_df) = Len(counts_dict) * M
           /\ \A i \in DOMAIN counts_dict : \A m \in 1..M :
                LET r == count_statistics_df[(i - 1) * M + m]
                    C == AllCombinations[m]
                    name == counts_dict[i].key
                IN /\ r.primary_filter = Str(name)
                   /\ r.waste_filter_criteria = Str(C)
                   /\ r.filter_order = Len(C)
                   /\ r.num_sites = DictGet(counts_dict[i].value.filter_counts[Len(C)], C)
                   /\ r.num_sites = Cardinality(RowsAllYes(ScopeTable(name), C))

\* a report of twelve scopes and 36 records in which a combination of two
\* criteria matches both rows of the root and one row of a primary scope
C15_Witness ==
    /\ ReportBuilt
    /\ Len(counts_dict) = 12
    /\ Len(count_statistics_df) = 36
    /\ count_statistics_df[3].filter_order = 2
    /\ count_statistics_df[3].num_sites = 2
    /\ count_statistics_df[6].filter_order = 2
    /\ count_statistics_df[6].num_sites = 1

\* C16: two runs of the aggregator on the same unchanged input table, with the
\* same criteria and filters, produce identical flattened output, down to the
\* order of the elements inside every stringified identifier list. (The
\* statistics gathered before the report is built are a function of the input;
\* the other run builds its report from the same statistics, in a process of
\* its own.)
C16_SameOutputOnEveryRun ==
    ReportBuilt =>
        \A hash_seed \in HashSeeds(MaxRows) :
            ConstructCountStatisticsDataframe(counts_dict, hash_seed) = count_statistics_df

\* the dict of an order, written out: combinations and their values
Items(keys, values) == [ i \in DOMAIN keys |-> [key |-> keys[i], value |-> values[i]] ]

\* C17: the worked scenario. For criteria A, B, C and the rows row1 = {A, B},
\* row2 = {A}, row3 = {B, C}, row4 = {C}, row5 = {}, the Row Matcher yields
\* (A) = 2 {row1, row2}, (B) = 2 {row1, row3}, (C) = 2 {row3, row4},
\* (A,B) = 1 {row1}, (A,C) = 0, (B,C) = 1 {row3}, (A,B,C) = 0; the report built
\* from it lists {row1, row2, row3, row4} as the deduplicated set of order 1 and
\* the same four rows as the grand deduplicated set over all orders.
C17_WorkedScenario ==
    LET A == ScenarioCriteria[1]
        B == ScenarioCriteria[2]
        C == ScenarioCriteria[3]
        singles == << << A >>, << B >>, << C >> >>
        pairs == << << A, B >>, << A, C >>, << B, C >> >>
        triple == << << A, B, C >> >>
    IN /\ (MatcherReturned /\ call.df = ScenarioTable) =>
            /\ ret.value.filter_counts
                = << Items(singles, << 2, 2, 2 >>), Items(pairs, << 1, 0, 1 >>),
                     Items(triple, << 0 >>) >>
            /\ ret.value.site_ref_nums
                = << Items(singles, << << 1, 2 >>, << 1, 3 >>, << 3, 4 >> >>),
                     Items(pairs, << << 1 >>, << >>, << 3 >> >>),
                     Items(triple, << << >> >>) >>
       /\ (call.fn = "construct_count_statistics_dataframe" /\ ret.status = "returned") =>
            /\ Len(ret.value) = 7
            /\ \A n \in DOMAIN ret.value :
                /\ ret.value[n].filter_order = 1 =>
                    /\ ret.value[n].refs_per_filter_order = Str(<< 1, 2, 3, 4 >>)
                    /\ ret.value[n].num_unique_per_filter_order = 4
                /\ Range(ret.value[n].total_unique_refs[2]) = { 1, 2, 3, 4 }
                /\ Len(ret.value[n].total_unique_refs[2]) = 4
                /\ ret.value[n].total_num_unique = 4

\* the report of the scenario has been built, of seven records, the last one
\* of order 3 with no matching site and a grand total of four
C17_Witness ==
    /\ call.fn = "construct_count_statistics_dataframe"
    /\ call.d = ScenarioDict
    /\ ret.status = "returned"
    /\ ret.value[7].filter_order = 3
    /\ ret.value[7].num_sites = 0
    /\ ret.value[7].total_num_unique = 4
    /\ ret.value[4].site_ref_nums = Str(<< 1 >>)

\* the positions, in the source list, of the criteria of a combination
SourcePositions(source, combination) ==
    [ p \in DOMAIN combination |-> IndexOf(source, combination[p]) ]

\* C18: the three parallel outputs of the Combination Generator stay in
\* lockstep: for every order r the lists of criterion-name, column-index and
\* column-letter combinations have the same length, and for every position i
\* the i-th entry of each list selects the same positions of its source list,
\* so that the i-th index tuple and the i-th letter tuple name the columns of
\* the i-th criterion tuple in the header row.
C18_ParallelOutputsInLockstep ==
    GeneratorReturned =>
        LET crits == ret.value.crits
            nums == ret.value.nums
            chars == ret.value.chars
        IN /\ DOMAIN nums = DOMAIN crits /\ DOMAIN chars = DOMAIN crits
           /\ \A r \in DOMAIN crits :
                /\ Len(nums[r]) = Len(crits[r]) /\ Len(chars[r]) = Len(crits[r])
                /\ \A i \in DOMAIN crits[r] :
                    LET pos == SourcePositions(call.criteria, crits[r][i])
                    IN /\ Len(nums[r][i]) = r /\ Len(chars[r][i]) = r
                       /\ \A p \in 1..r :
                            /\ nums[r][i][p] = ColIndicesNum(call.criteria)[pos[p]]
                            /\ chars[r][i][p] = ColIndicesChar(call.criteria)[pos[p]]
                            /\ EXCEL_COL_HEADERS[nums[r][i][p] + 1] = crits[r][i][p]
                            /\ chars[r][i][p] = ColumnLetters(nums[r][i][p] + 1)

\* the generator has run on the ten criteria: the first pair is ("Inert Waste",
\* "Industrial Waste"), columns 34 and 35 (zero-based), letters AI and AJ
C18_Witness ==
    /\ GeneratorReturned
    /\ call.criteria = WASTE_FILTRATION_CRITERIA
    /\ ret.value.crits[2][1] = << "Inert Waste", "Industrial Waste" >>
    /\ ret.value.nums[2][1] = << 34, 35 >>
    /\ ret.value.chars[2][1] = << << 1, 9 >>, << 1, 10 >> >>

\* a comes before b in lexicographic order (tuples of the same length)
LexLess(a, b) ==
    \E k \in DOMAIN a : a[k] < b[k] /\ \A j \in 1..(k - 1) : a[j] = b[j]

\* C19: every generated combination lists its criteria in the relative order
\* in which they appear in the source criteria list (never re-sorted), and within
\* each order the combinations come in lexicographic order of their source
\* positions; the generation order is thereby fixed by the source list alone,
\* the same on every call.
C19_GenerationOrder ==
    GeneratorReturned =>
        \A r \in DOMAIN ret.value.crits :
            LET combos == ret.value.crits[r]
                pos(i) == SourcePositions(call.criteria, combos[i])
            IN /\ \A i \in DOMAIN combos : \A p, q \in 1..r :
                    p < q => pos(i)[p] < pos(i)[q]
               /\ \A i, j \in DOMAIN combos : i < j => LexLess(pos(i), pos(j))

\* the generator has run on a list that is not in alphabetical order: the pairs
\* of ("Inert Waste", "Industrial Waste", "Commercial Waste") come as
\* (Inert, Industrial), (Inert, Commercial), (Industrial, Commercial)
C19_Witness ==
    /\ GeneratorReturned
    /\ call.criteria = FirstCriteria(3)
    /\ ret.value.crits[2]
        = << << "Inert Waste", "Industrial Waste" >>, << "Inert Waste", "Commercial Waste" >>,
             << "Industrial Waste", "Commercial Waste" >> >>

\* a scope name followed by the names given, each preceded by " + "
Chained(name, names) ==
    name \o Flatten([ i \in DOMAIN names |-> << " + " >> \o names[i] ])

\* C20: scope naming. For every parent scope name p and secondary name s the
\* single-secondary scope is named p + " + " + s, and for any number S >= 1 of
\* secondary filters the all-secondary scope is named p followed by all S
\* secondary names in their given order, each preceded by " + "; the scope names
\* of a run are pairwise distinct, so that no scope's statistics overwrite
\* another's. (Runs whose filters are given pairwise distinct names.)
C20_AllSecondaryNamesChained ==
    (ScopeNamesDistinct /\ NumPrimary >= 1 /\ NumSecondary >= 1) =>
        \* naming the all-secondary scope does not fail
        /\ ~ (raised = "IndexError" /\ secondary_data_dict # << >>)
        /\ ReportBuilt =>
            LET names == Names(secondary_filter_criteria)
            IN /\ \A j \in DOMAIN primary_data_dict :
                    LET p == primary_data_dict[j].key
                    IN /\ \A f \in DOMAIN names :
                            DictHas(counts_dict, p \o << " + " >> \o names[f])
                       /\ DictHas(counts_dict, Chained(p, names))
                       /\ RefsOf(ScopeTable(Chained(p, names)))
                            = RefsAt(primary_data_dict[j].value,
                                { n \in DOMAIN primary_data_dict[j].value.rows :
                                    \A g \in DOMAIN names :
                                        primary_data_dict[j].value.rows[n][
                                            secondary_filter_criteria[g][2]] = "Yes" })
               /\ Len(counts_dict)
                    = 1 + NumPrimary + (NumPrimary + 1) * (NumSecondary + 1)

\* the loop over the primary filters is over and the run has not failed
PrimaryScopesGathered == pc \in { "secondary", "save", "done" }

\* the table stored for the i-th primary filter
PrimaryScope(i) == primary_data_dict[1 + i].value

\* C21: the primary scopes partition the root scope. Each primary scope holds
\* exactly the root rows whose primary filter column equals its value, in the
\* root's order; the scopes of distinct values are pairwise disjoint; and when
\* every root row carries one of the primary values (the root was built by
\* OR-ing them) every root row is in exactly one primary scope and the scopes'
\* row counts sum to the root's. (Runs whose filters are given distinct names.)
C21_PrimaryScopesPartitionRoot ==
    (PrimaryScopesGathered /\ ScopeNamesDistinct) =>
        LET ce == on_and_adjacent_ce_property_filter_column_name
            values == Unzipped(primary_filter_criteria)
        IN /\ Len(primary_data_dict) = 1 + NumPrimary
           /\ \A i \in 1..NumPrimary :
                /\ Range(PrimaryScope(i).rows)
                    = { hld_df.rows[n] :
                            n \in { m \in DOMAIN hld_df.rows : hld_df.rows[m][ce] = values[i] } }
                /\ NumRows(PrimaryScope(i))
                    = Cardinality({ m \in DOMAIN hld_df.rows : hld_df.rows[m][ce] = values[i] })
                /\ \A a, b \in DOMAIN PrimaryScope(i).rows :
                        a < b => PrimaryScope(i).rows[a][HLD_REFERENCE]
                                    < PrimaryScope(i).rows[b][HLD_REFERENCE]
           /\ \A i, j \in 1..NumPrimary :
                values[i] # values[j] =>
                    Range(PrimaryScope(i).rows) \cap Range(PrimaryScope(j).rows) = {}
           /\ (NoDuplicates(values)
                /\ \A n \in DOMAIN hld_df.rows : hld_df.rows[n][ce] \in Range(values)) =>
                /\ \A n \in DOMAIN hld_df.rows :
                        Cardinality({ i \in 1..NumPrimary :
                                        hld_df.rows[n] \in Range(PrimaryScope(i).rows) }) = 1
                /\ SumSeq([ i \in 1..NumPrimary |-> NumRows(PrimaryScope(i)) ])
                        = NumRows(hld_df)

\* a root of as many sites as a sheet may list, all but one on a CE property and
\* one adjacent to one, split by the two primary filters into two scopes that
\* hold every row between them
C21_Witness ==
    /\ PrimaryScopesGathered /\ ScopeNamesDistinct
    /\ NumPrimary = 2
    /\ NumRows(hld_df) = MaxRows
    /\ \A n \in DOMAIN hld_df.rows :
            hld_df.rows[n][on_and_adjacent_ce_property_filter_column_name]
                \in { "Yes", "Adjacent" }
    /\ NumRows(PrimaryScope(1)) = MaxRows - 1
    /\ NumRows(PrimaryScope(2)) = 1

LoadReturned ==
    /\ call.fn = "load_initial_filtered_data"
    /\ ret.status = "returned"

\* the rows of a sheet that filter_dataset keeps
KeptByFilter(dataset, column, filter_criteria, combination_operator) ==
    { dataset.rows[i] : i \in
        { n \in DOMAIN dataset.rows :
            CASE combination_operator = "None" -> TRUE
              [] combination_operator = "or_" ->
                    dataset.rows[n][column] \in { filter_criteria[1], filter_criteria[2] }
              [] combination_operator = "and_" ->
                    /\ dataset.rows[n][column] = filter_criteria[1]
                    /\ dataset.rows[n][column] = filter_criteria[2] } }

\* C22: cache gating in load_initial_filtered_data. If load_existing is true and
\* the intermediate-state file exists, run_first_stage is not run, the file is
\* left as it is and the table returned is the one the file holds; in every
\* other case run_first_stage runs exactly once and, when it succeeds, writes
\* the file; after any successful call the file exists and holds the returned
\* table.
C22_CacheGating ==
    LoadReturned =>
        LET r == ret.value
            cached == call.load_existing /\ call.file.exists
        IN /\ cached =>
                /\ r.first_stage_runs = 0
                /\ r.raised = ""
                /\ r.file = call.file
                /\ r.df.columns = call.file.content[2]
                /\ r.df.rows = call.file.content[3]
           /\ ~ cached =>
                /\ r.first_stage_runs = 1
                /\ r.raised = "" =>
                    /\ Range(r.df.rows)
                        = KeptByFilter(call.dataset, call.filter_column_name,
                                       call.filter_criteria, call.combination_operator)
                    /\ r.file = FileHolding(r.df)
                /\ r.raised # "" => r.file = call.file
           /\ r.raised = "" =>
                /\ r.file.exists
                /\ Unpickle(r.file.content) = r.df

\* a call with load_existing false on a file that holds another table: the
\* first stage runs and the file is overwritten with the table returned
C22_Witness ==
    /\ LoadReturned
    /\ ~ call.load_existing /\ call.file.exists
    /\ ret.value.raised = ""
    /\ ret.value.first_stage_runs = 1
    /\ NumRows(ret.value.df) = 1
    /\ ret.value.file # call.file
    /\ ret.value.file = FileHolding(ret.value.df)

\* the generator is enumerating the combinations of more than twenty criteria
EnumeratingManyCriteria ==
    /\ call.fn = "get_filter_combinations_criteria_multiple_orders"
    /\ Len(call.criteria) > 20
    /\ ret.status = "running"
    /\ ret.crits # << >>

\* C23: scale guard. When the number N of filter criteria makes the enumeration
\* impractical (N > 20) the generator flags it, by a warning or by a refusal,
\* before it enumerates: it is never found enumerating such a list without a
\* warning in its log.
C23_LargeEnumerationFlagged ==
    EnumeratingManyCriteria =>
        \E i \in DOMAIN ret.log : ret.log[i].level \in { "WARNING", "ERROR" }

MultipleProcessesReturned ==
    /\ call.fn = "get_lat_long_postcode_from_easting_and_northing_multiple_processes"
    /\ ret.status = "returned"

\* C24: the parallel coordinate enrichment is order-safe. For any number of
\* workers and any order in which the workers take and finish the tasks, the
\* latitude, longitude and postcode at position i of the lists returned by the
\* multi-process path are the worker's results for row i, and the lists are
\* those the single-process path returns for the same table.
C24_PoolResultsInRowOrder ==
    MultipleProcessesReturned =>
        LET args_list == ArgsList(call.hld_df, call.enable_postcode_extraction)
        IN /\ Len(ret.value.latitudes) = NumRows(call.hld_df)
           /\ Len(ret.value.longitudes) = NumRows(call.hld_df)
           /\ Len(ret.value.postcodes) = NumRows(call.hld_df)
           /\ \A i \in DOMAIN call.hld_df.rows :
                LET result == Worker(args_list[i], call.geocoder)
                IN /\ ret.value.latitudes[i] = result.latitude
                   /\ ret.value.longitudes[i] = result.longitude
                   /\ ret.value.postcodes[i] = result.postcode
           /\ ret.value = SingleProcess(call.hld_df, call.enable_postcode_extraction,
                                        call.geocoder)

\* three sites at different places converted by two workers, the task of the
\* first row being the last to finish
C24_Witness ==
    /\ MultipleProcessesReturned
    /\ call.num_cores = 2
    /\ NumRows(call.hld_df) = 3
    /\ call.hld_df.rows[1][EASTING] # call.hld_df.rows[2][EASTING]
    /\ call.enable_postcode_extraction
    /\ ret.value.postcodes[1] # ret.value.postcodes[2]
    /\ ret.completed[3].row_index = 0
    /\ ret.completed[1].row_index = 1

LettersToIndexReturned ==
    /\ call.fn = "convert_excel_column_letters_to_column_index"
    /\ ret.status = "returned"

IndexToLettersReturned ==
    /\ call.fn = "convert_excel_column_index_to_column_letters"
    /\ ret.status = "returned"

RECURSIVE Pow26(_)
Pow26(k) == IF k = 0 THEN 1 ELSE 26 * Pow26(k - 1)

\* the letters "A" .. "Z" as their alphabet positions
Letter(c) ==
    CASE c = "A" -> 1 [] c = "B" -> 2 [] c = "C" -> 3 [] c = "I" -> 9 [] c = "Z" -> 26

\* C25: convert_excel_column_letters_to_column_index returns, for every
\* non-empty string of letters A..Z, its bijective base-26 value with A = 1 ...
\* Z = 26: the sum of position(letter) * 26^(place), satisfying
\* value(s + c) = 26 * value(s) + position(c), so that A = 1, B = 2, C = 3,
\* AA = 27, AB = 28, BB = 54 and BI = 61.
C25_LettersToIndexBijectiveBase26 ==
    LettersToIndexReturned =>
        LET s == call.name
            known == << << << "A" >>, 1 >>, << << "B" >>, 2 >>, << << "C" >>, 3 >>,
                        << << "A", "A" >>, 27 >>, << << "A", "B" >>, 28 >>,
                        << << "B", "B" >>, 54 >>, << << "B", "I" >>, 61 >> >>
        IN /\ ret.value = SumSeq([ i \in DOMAIN s |-> s[i] * Pow26(Len(s) - i) ])
           /\ ret.value >= 1
           /\ \A c \in 1..26 :
                ColumnIndex(Append(s, c)) = 26 * ret.value + c
           /\ \A k \in DOMAIN known :
                s = [ i \in DOMAIN known[k][1] |-> Letter(known[k][1][i]) ]
                    => ret.value = known[k][2]

\* the name "BI" converted to 61
C25_Witness ==
    /\ LettersToIndexReturned
    /\ call.name = << Letter("B"), Letter("I") >>
    /\ ret.value = 61

\* C26: convert_excel_column_index_to_column_letters is the inverse of
\* convert_excel_column_letters_to_column_index. For every n >= 1 the letters
\* returned for n convert back to n, and for every non-empty name the index
\* converts back to the name (1 = "A", 26 = "Z", 27 = "AA", 61 = "BI"); the loop
\* ends for every n >= 0, each turn leaving a smaller n that is not negative.
C26_ConvertersInverse ==
    /\ IndexToLettersReturned =>
        /\ call.n >= 1 => ColumnIndex(ret.value) = call.n /\ ret.value # << >>
        /\ call.n = 0 => ret.value = << >>
        /\ \A i \in DOMAIN ret.value : ret.value[i] \in 1..26
        /\ call.n > 0 => (call.n - 1) \div 26 >= 0 /\ (call.n - 1) \div 26 < call.n
        /\ call.n = 1 => ret.value = << Letter("A") >>
        /\ call.n = 26 => ret.value = << Letter("Z") >>
        /\ call.n = 27 => ret.value = << Letter("A"), Letter("A") >>
        /\ call.n = 61 => ret.value = << Letter("B"), Letter("I") >>
    /\ LettersToIndexReturned => ColumnLetters(ret.value) = call.name

\* the column number 52, whose plain base-26 digits are (2, 0), converted to "AZ"
C26_Witness ==
    /\ IndexToLettersReturned
    /\ call.n = 52
    /\ ret.value = << Letter("A"), Letter("Z") >>
    /\ ColumnIndex(ret.value) = 52

\* C27: anti-monotonicity of matching. Within one table, for any two
\* combinations C and D with the criteria of C among those of D, the identifiers
\* returned for D are among those returned for C and count(D) <= count(C); so
\* every count of order k+1 is at most the count of each of its sub-combinations
\* of order k.
C27_MatchingAntiMonotone ==
    MatcherReturned =>
        \A o \in DOMAIN call.combos, p \in DOMAIN call.combos :
            \A i \in DOMAIN call.combos[o], j \in DOMAIN call.combos[p] :
                LET C == call.combos[o][i]
                    D == call.combos[p][j]
                IN Range(C) \subseteq Range(D) =>
                    /\ Range(DictGet(ret.value.site_ref_nums[p], D))
                        \subseteq Range(DictGet(ret.value.site_ref_nums[o], C))
                    /\ DictGet(ret.value.filter_counts[p], D)
                        <= DictGet(ret.value.filter_counts[o], C)

\* two sites of which one holds both criteria and the other the second only: the
\* pair matches fewer sites than its second criterion, and as many as its first
C27_Witness ==
    /\ MatcherReturned
    /\ Len(call.criteria) = 2
    /\ call.combos = GetFilterCombinations(call.criteria).crits
    /\ DictGet(ret.value.filter_counts[1], << call.criteria[1] >>) = 1
    /\ DictGet(ret.value.filter_counts[1], << call.criteria[2] >>) = 2
    /\ DictGet(ret.value.filter_counts[2], call.criteria) = 1

\* the deduplicated identifiers the report lists for order k of a scope
ReportedOrderSet(name, k) ==
    UNION { Range(count_statistics_df[n].refs_per_filter_order[2]) :
                n \in { m \in DOMAIN count_statistics_df :
                            /\ ScopeOf(count_statistics_df[m]) = name
                            /\ count_statistics_df[m].filter_order = k } }

\* C28: nested orders. Within one scope the deduplicated identifier set of order
\* k+1 is a subset of that of order k, so the union of the scope's sets over all
\* orders is its order-1 set and the per-order unique counts do not increase
\* with k.
C28_OrdersNested ==
    ReportBuilt =>
        /\ \A n, m \in DOMAIN count_statistics_df :
            LET r == count_statistics_df[n]
                q == count_statistics_df[m]
            IN (ScopeOf(r) = ScopeOf(q) /\ q.filter_order = r.filter_order + 1) =>
                /\ Range(q.refs_per_filter_order[2]) \subseteq Range(r.refs_per_filter_order[2])
                /\ q.num_unique_per_filter_order <= r.num_unique_per_filter_order
        /\ \A j \in DOMAIN counts_dict :
            LET name == counts_dict[j].key
            IN /\ UNION { ReportedOrderSet(name, k) : k \in DOMAIN combs.crits }
                    = ReportedOrderSet(name, 1)
               /\ \A k \in DOMAIN combs.crits : k > 1 =>
                    OrderIdentifiers(name, k) \subseteq OrderIdentifiers(name, k - 1)

\* a report with a scope of two sites matched at order 1 of which one only is
\* matched at order 2
C28_Witness ==
    /\ ReportBuilt
    /\ \E n, m \in DOMAIN count_statistics_df :
        LET r == count_statistics_df[n]
            q == count_statistics_df[m]
        IN /\ ScopeOf(r) = ScopeOf(q)
           /\ r.filter_order = 1 /\ q.filter_order = 2
           /\ r.num_unique_per_filter_order = 2
           /\ q.num_unique_per_filter_order = 1

\* the identifiers the matcher returned for the scope called name, over all
\* orders and combinations
ScopeIdentifiers(name) == Range(SiteTotals(DictGet(counts_dict, name).site_ref_nums))

\* C29: the consistency check can never fail on the live path. The identifiers
\* get_filter_criteria_counts returns for a table are identifiers of rows of
\* that table, so check_site_totals on the same table does not raise: no run
\* of get_count_statistics_filter_criteria ends in AssertionError, and every
\* scope gathered passes the check against its own table.
C29_CheckNeverFailsInRun ==
    /\ raised # "AssertionError"
    /\ \A j \in DOMAIN counts_dict :
        LET name == counts_dict[j].key
        IN /\ ScopeIdentifiers(name) \subseteq RefsOf(ScopeTable(name))
           /\ Cardinality(ScopeIdentifiers(name)) <= NumRows(ScopeTable(name))
           /\ CheckSiteTotals(ScopeTable(name), counts_dict[j].value.site_ref_nums) = ""

\* a finished run whose root holds as many sites as a sheet may list, each of
\* them matched by every combination: the identifiers returned, counted with
\* their repetitions, exceed the rows, and counted once equal them
C29_Witness ==
    /\ pc = "done"
    /\ NumRows(hld_df) = MaxRows
    /\ Cardinality(ScopeIdentifiers(ROOT_SCOPE_NAME)) = NumRows(hld_df)
    /\ Len(SiteTotals(DictGet(counts_dict, ROOT_SCOPE_NAME).site_ref_nums))
            > NumRows(hld_df)

\* the count the matcher returned for a combination in the scope called name
CountIn(name, combination) ==
    DictGet(DictGet(counts_dict, name).filter_counts[Len(combination)], combination)

\* the table composed from the j-th parent scope and the secondary filter of
\* zero-based index f (f = NumSecondary: all secondary filters together)
ComposedScope(f, j) == secondary_data_dict[f * (NumPrimary + 1) + j]

\* C30: scope hierarchy. The rows of the scope composed from a parent p and a
\* secondary filter s are the rows of p whose column s equals "Yes", a subset of
\* p's rows; the all-secondary scope of p is the intersection of p's
\* single-secondary scopes; so for every combination the match count in a
\* composed scope is at most its count in the parent scope, and the count in
\* any scope is at most the count in the root. (Runs whose filters are given
\* distinct names.)
C30_ScopeHierarchy ==
    (ReportBuilt /\ ScopeNamesDistinct) =>
        /\ \A j \in DOMAIN primary_data_dict :
            LET parent == primary_data_dict[j]
                every == ComposedScope(NumSecondary, j)
            IN /\ \A f \in 0..(NumSecondary - 1) :
                    LET child == ComposedScope(f, j)
                    IN /\ Range(child.value.rows) \subseteq Range(parent.value.rows)
                       /\ Range(child.value.rows)
                            = { r \in Range(parent.value.rows) :
                                    r[secondary_filter_criteria[f + 1][2]] = "Yes" }
                       /\ \A n \in DOMAIN AllCombinations :
                            CountIn(child.key, AllCombinations[n])
                                <= CountIn(parent.key, AllCombinations[n])
               /\ Range(every.value.rows) \subseteq Range(parent.value.rows)
               /\ \A r \in Range(parent.value.rows) :
                    r \in Range(every.value.rows)
                        <=> \A f \in 0..(NumSecondary - 1) :
                                r \in Range(ComposedScope(f, j).value.rows)
               /\ \A n \in DOMAIN AllCombinations :
                    CountIn(every.key, AllCombinations[n])
                        <= CountIn(parent.key, AllCombinations[n])
        /\ \A j \in DOMAIN counts_dict : \A n \in DOMAIN AllCombinations :
            CountIn(counts_dict[j].key, AllCombinations[n])
                <= CountIn(ROOT_SCOPE_NAME, AllCombinations[n])

\* a finished run in which the root holds two sites with the first criterion,
\* its first composed scope one of them and its all-secondary scope none
C30_Witness ==
    /\ pc = "done" /\ ScopeNamesDistinct
    /\ NumSecondary = 2
    /\ CountIn(ROOT_SCOPE_NAME, << Criteria[1] >>) = 2
    /\ CountIn(ComposedScope(0, 1).key, << Criteria[1] >>) = 1
    /\ NumRows(ComposedScope(1, 1).value) = 1
    /\ NumRows(ComposedScope(NumSecondary, 1).value) = 0

====
